---- MODULE Spec2Model ----
(***************************************************************************)
(* A model of `hope`, a compiler wrapper that caches the outputs of        *)
(* crates.io units in a shared local directory (the store).                *)
(*                                                                         *)
(* Spec      the outer driver invokes the wrapper, one whole process at a  *)
(*           time, in two workspaces that share one store: as the          *)
(*           compiler (hope/src/main.rs) and as a build script             *)
(*           (hope/src/build_script.rs).                                   *)
(* SpecFlat  the same, under a driver that runs the build script in the    *)
(*           directory it has the main unit compiled into, so that the     *)
(*           compiler call finds the recipe of a deferred run.             *)
(* SpecConc  two wrapper processes handle the same unit at the same time;  *)
(*           every file copy is split into its open (truncate) and its     *)
(*           writes, as std::fs::copy performs them.                       *)
(* SpecLog   wrapper processes append to the log file at the same time,    *)
(*           write call by write call (cache-log/src/lib.rs).              *)
(* SpecFn    one function of the wrapper is called with an input from a    *)
(*           bounded set: the role taken from argv, the filename of an     *)
(*           output, the rewriter of dependency-info text, the build       *)
(*           script's stand-in over a cached stdout, the compiler role     *)
(*           (once, or again over what the first run left), the walk up    *)
(*           to the fingerprint directory, and of the prototype            *)
(*           (wrapper/src) the loop that pops the out-dir and the parser   *)
(*           of dependency-info files.                                     *)
(*                                                                         *)
(* Paths are sequences of components.  A file's content is a sequence of   *)
(* numbers: 1 is a byte the real compiler emitted, 0 a byte of a hole      *)
(* left by a write past the end, 2 a byte of the wrapper's own executable. *)
(* In the builds a dependency-info file is a sequence of line classes      *)
(* instead (see RewriteDepInfo); SpecFn runs the rewriter over text (see   *)
(* rewrite_dep_info_text).  The stdout of a build script is text.          *)
(***************************************************************************)
EXTENDS Integers, Sequences, FiniteSets, TLC

\* ------------------------------------------------------------------ bounds

\* The number of wrapper invocations the driver makes in one behaviour.
MaxInvocations == 6

\* The number of writes one file copy takes.
FileLen == 2

\* The number of pieces a line of the log can reach the log file in.
LineChunks == 2

\* The lines of a text that a function is called with.
MaxLines == 2

\* The arguments after argv[0] that a process is started with.
MaxArgs == 2

\* The turns of the prototype's loop for the target directory that are
\* followed.
MaxPops == 5

\* The times the rewriter is run over one file.
MaxPasses == 2

\* ------------------------------------------------------------------- paths

Workspaces == {"A", "B"}

\* Workspaces of a driver that gives the run of a build script and the
\* compiler call for the main unit the same output directory.
FlatWorkspaces == {"F", "G"}

Root(w) == <<"home", w, "proj">>

TargetDir(w) == Root(w) \o <<"target", "debug">>


\* Where the compiler call for the build script puts the build script.
ScriptBuildDir(w) == TargetDir(w) \o <<"build", "typenum-2">>

\* The directory of the run of the build script, and the OUT_DIR in it.
ScriptRunDir(w) ==
    TargetDir(w) \o (IF w \in FlatWorkspaces THEN <<"run", "typenum-3">>
                     ELSE <<"build", "typenum-3">>)

ScriptOutDir(w) == ScriptRunDir(w) \o <<"out">>

\* The out-dir of the compiler calls for the other units.
DepsDir(w) == IF w \in FlatWorkspaces THEN ScriptOutDir(w) ELSE TargetDir(w) \o <<"deps">>

RegistrySrc == <<"home", ".cargo", "registry", "src", "index.crates.io-6f17d22bba15001f">>

Join(dir, name) == Append(dir, name)

Parent(path) == SubSeq(path, 1, Len(path) - 1)

FileNameOf(path) == path[Len(path)]

IsPrefix(p, q) == Len(p) <= Len(q) /\ SubSeq(q, 1, Len(p)) = p

\* ------------------------------------------------------------------- files

Full == [i \in 1..FileLen |-> 1]

HopeExe == [i \in 1..FileLen |-> 2]

NoInfo == [real_build_script_path |-> <<>>, work_dir |-> <<>>, out_dir |-> <<>>]

RegularFile(data) == [data |-> data, link |-> <<>>, info |-> NoInfo, mtime |-> 0]

Symlink(target) == [data |-> <<>>, link |-> target, info |-> NoInfo, mtime |-> 0]

\* A file with its modification time set.
Stamped(file, mtime) == [file EXCEPT !.mtime = mtime]

Write(dir, path, file) ==
    [p \in DOMAIN dir \cup {path} |-> IF p = path THEN file ELSE dir[p]]

Remove(dir, path) == [p \in DOMAIN dir \ {path} |-> dir[p]]

\* A path exists when it is a file or a directory above one.
Exists(dir, path) == \E p \in DOMAIN dir : IsPrefix(path, p)

EmptyDir == [p \in {} |-> RegularFile(<<>>)]

\* ------------------------------------------------------------ output defns

OutputDefn(tag, ct) == [tag |-> tag, ct |-> ct]

\* main.rs:573-606: the name of the file of an output.  The match has no arm
\* that returns for a static, dynamic or C dynamic library (todo!() ends the
\* process there), and the arm of a procedural macro is chosen by the
\* target_os the wrapper was built for.
file_name_panics(output_defn) ==
    output_defn.tag = "Link" /\ output_defn.ct \in {"Staticlib", "Dylib", "Cdylib"}

file_name_on(target_os, output_defn, crate_unit_name) ==
    CASE output_defn.tag = "Asm" -> crate_unit_name \o ".s"
      [] output_defn.tag = "LlvmBc" -> crate_unit_name \o ".bc"
      [] output_defn.tag = "LlvmIr" -> crate_unit_name \o ".ll"
      [] output_defn.tag = "Obj" -> crate_unit_name \o ".o"
      [] output_defn.tag = "Metadata" -> "lib" \o crate_unit_name \o ".rmeta"
      [] output_defn.tag = "Link" /\ output_defn.ct \in {"Lib", "Rlib"} ->
            "lib" \o crate_unit_name \o ".rlib"
      [] output_defn.tag = "Link" /\ output_defn.ct = "Bin" -> crate_unit_name
      [] output_defn.tag = "Link" /\ output_defn.ct = "ProcMacro" ->
            "lib" \o crate_unit_name \o (IF target_os = "macos" THEN ".dylib" ELSE ".so")
      [] output_defn.tag = "DepInfo" -> crate_unit_name \o ".d"
      [] output_defn.tag = "Mir" -> crate_unit_name \o ".mir"
      [] OTHER -> "todo!()"

\* The builds are followed on Linux.
file_name(output_defn, crate_unit_name) == file_name_on("linux", output_defn, crate_unit_name)

\* The outputs an invocation declares.  The code collects them from two
\* HashSets into a Vec whose order is unspecified: the model keeps the set
\* and draws an order where one matters.
output_defns(crate_types, output_types) ==
    {OutputDefn(t, "") : t \in output_types \ {"Link"}}
        \cup (IF "Link" \in output_types
              THEN {OutputDefn("Link", ct) : ct \in crate_types}
              ELSE {})

Orders(S) == {o \in [1..Cardinality(S) -> S] : \A x \in S : \E i \in DOMAIN o : o[i] = x}

\* ------------------------------------------------------------- invocations

Some(x) == <<x>>

None == <<>>

KvPair(key, value) == [key |-> key, value |-> value]

\* The codegen option `key`, as the code's filter_map(..).find(..) returns it.
\* A search that takes an option that is not there for an empty one.
FindCodegenOptionOrEmpty(codegen_options, key) ==
    LET hits == SelectSeq(codegen_options, LAMBDA o : o.key = key)
    IN  IF hits = <<>> THEN Some("") ELSE Some(hits[1].value)

FindCodegenOption(codegen_options, key) ==
    LET hits == SelectSeq(codegen_options, LAMBDA o : o.key = key)
    IN  IF hits = <<>> THEN None ELSE Some(hits[1].value)

Steps == {"probe", "bs", "run", "typenum", "foo"}

CompileSteps == Steps \ {"run"}

\* The command line the driver hands to the wrapper for each compiler call
\* (the layout is the driver's: build_script.rs:33-36 describes it).
\* `pass` stands for the argument vector after the real compiler's path.
Invocation(w, step) ==
    CASE step = "probe" ->
            [rustc_path |-> <<"usr", "bin", "rustc">>, pass |-> <<"-vV">>,
             input |-> None, out_dir |-> None, crate_name |-> None,
             crate_types |-> {}, emit |-> {}, codegen_options |-> <<>>,
             cargo_pkg_name |-> None]
      [] step = "bs" ->
            [rustc_path |-> <<"usr", "bin", "rustc">>, pass |-> <<"build_script_main", w>>,
             input |-> Some(RegistrySrc \o <<"typenum-1.17.0", "build", "main.rs">>),
             out_dir |-> Some(ScriptBuildDir(w)), crate_name |-> Some("build_script_main"),
             crate_types |-> {"Bin"}, emit |-> {"DepInfo", "Link"},
             codegen_options |-> <<KvPair("metadata", "2"), KvPair("extra-filename", "-2")>>,
             cargo_pkg_name |-> Some("typenum")]
      [] step = "typenum" ->
            [rustc_path |-> <<"usr", "bin", "rustc">>, pass |-> <<"typenum", w>>,
             input |-> Some(RegistrySrc \o <<"typenum-1.17.0", "src", "lib.rs">>),
             out_dir |-> Some(DepsDir(w)), crate_name |-> Some("typenum"),
             crate_types |-> {"Lib"}, emit |-> {"DepInfo", "Metadata", "Link"},
             codegen_options |-> <<KvPair("metadata", "4"), KvPair("extra-filename", "-4")>>,
             cargo_pkg_name |-> Some("typenum")]
      [] OTHER ->
            [rustc_path |-> <<"usr", "bin", "rustc">>, pass |-> <<"foo", w>>,
             input |-> Some(<<"src", "main.rs">>),
             out_dir |-> Some(DepsDir(w)), crate_name |-> Some("foo"),
             crate_types |-> {"Bin"}, emit |-> {"DepInfo", "Link"},
             codegen_options |-> <<KvPair("metadata", "5"), KvPair("extra-filename", "-5")>>,
             cargo_pkg_name |-> Some("foo")]

\* What the driver waits for before it starts a step.
Needs(step) ==
    CASE step = "run" -> {"bs"}
      [] step = "typenum" -> {"run"}
      [] step = "foo" -> {"typenum"}
      [] OTHER -> {}

\* The unit name of a step's invocation: crate name and extra-filename.
UnitOf(step) ==
    CASE step = "bs" -> "build_script_main-2"
      [] step = "typenum" -> "typenum-4"
      [] step = "foo" -> "foo-5"
      [] OTHER -> ""

CachedSteps == {"bs", "typenum"}

\* --------------------------------------------------------------- event log

LogLine(kind, name, by) == [kind |-> kind, name |-> name, by |-> by]

\* A log that takes every line twice; C1_ConsumerDefersScript tells it from
\* write_log_line.
write_log_line_twice(log, log_line) == Append(Append(log, log_line), log_line)

\* One line appended to the log file.  `by` (the workspace of the appending
\* process) is not in the file: it lets a property tell the builds apart.
write_log_line(log, log_line) == Append(log, log_line)

Count(log, kind, name, by) ==
    Cardinality({i \in DOMAIN log :
        log[i].kind = kind /\ log[i].name = name /\ log[i].by = by})

CountAll(log, kind, name) ==
    Cardinality({i \in DOMAIN log : log[i].kind = kind /\ log[i].name = name})

\* ------------------------------------------------------------------- store

Min(S) == CHOOSE x \in S : \A y \in S : x <= y

NoFiles == [n \in {} |-> <<>>]

\* A pull that appends its log line on a miss too; C4_PartialUnitIsMiss tells
\* it from PullCrate.
PullCrateAlwaysLogs(st, log, crate_unit_name, order, by) ==
    LET names == [i \in DOMAIN order |-> file_name(order[i], crate_unit_name)]
        missing == {i \in DOMAIN order : names[i] \notin DOMAIN st}
        stop == IF missing = {} THEN Len(order) + 1 ELSE Min(missing)
        copied == {names[i] : i \in 1..(stop - 1)}
    IN  [ok |-> missing = {},
         arrival |-> [n \in copied |-> st[n]],
         log |-> Append(log, LogLine("PulledCrateOutputs", crate_unit_name, by))]

\* A pull that appends no log line; C8_HitPullsOnce tells it from PullCrate.
PullCrateSilent(st, log, crate_unit_name, order, by) ==
    LET names == [i \in DOMAIN order |-> file_name(order[i], crate_unit_name)]
        missing == {i \in DOMAIN order : names[i] \notin DOMAIN st}
        stop == IF missing = {} THEN Len(order) + 1 ELSE Min(missing)
        copied == {names[i] : i \in 1..(stop - 1)}
    IN  [ok |-> missing = {},
         arrival |-> [n \in copied |-> st[n]],
         log |-> log]

\* LocalCache::pull_crate_outputs: copy the unit's files from the store into
\* the directory the caller named, stop at the first that cannot be copied,
\* and append the log line when all have been copied.
PullCrate(st, log, crate_unit_name, order, by) ==
    LET names == [i \in DOMAIN order |-> file_name(order[i], crate_unit_name)]
        missing == {i \in DOMAIN order : names[i] \notin DOMAIN st}
        stop == IF missing = {} THEN Len(order) + 1 ELSE Min(missing)
        copied == {names[i] : i \in 1..(stop - 1)}
    IN  [ok |-> missing = {},
         arrival |-> [n \in copied |-> st[n]],
         log |-> IF missing = {}
                 THEN write_log_line(log, LogLine("PulledCrateOutputs", crate_unit_name, by))
                 ELSE log]

\* A push that appends its log line even when a copy failed;
\* C7_AtMostOnePushedEntry tells it from PushCrate.
PushCrateAlwaysLogs(st, log, departure, crate_unit_name, order, fail_at, by) ==
    LET names == [i \in DOMAIN order |-> file_name(order[i], crate_unit_name)]
        bad == {i \in DOMAIN order : names[i] \notin DOMAIN departure \/ i = fail_at}
        stop == IF bad = {} THEN Len(order) + 1 ELSE Min(bad)
        copied == {names[i] : i \in 1..(stop - 1)}
    IN  [ok |-> bad = {},
         store |-> [n \in DOMAIN st \cup copied |->
                        IF n \in copied THEN departure[n] ELSE st[n]],
         log |-> Append(log, LogLine("PushedCrateOutputs", crate_unit_name, by))]

\* A push that copies the first of the unit's files only.
PushCrateFirstFileOnly(st, log, departure, crate_unit_name, order, fail_at, by) ==
    LET names == [i \in DOMAIN order |-> file_name(order[i], crate_unit_name)]
        bad == {i \in DOMAIN order : names[i] \notin DOMAIN departure \/ i = fail_at}
        copied == IF bad = {} THEN {names[1]} ELSE {}
    IN  [ok |-> bad = {},
         store |-> [n \in DOMAIN st \cup copied |->
                        IF n \in copied THEN departure[n] ELSE st[n]],
         log |-> IF bad = {}
                 THEN write_log_line(log, LogLine("PushedCrateOutputs", crate_unit_name, by))
                 ELSE log]

\* A push that appends its log line when a copy has failed, too.
PushCrateLogsAnyway(st, log, departure, crate_unit_name, order, fail_at, by) ==
    LET names == [i \in DOMAIN order |-> file_name(order[i], crate_unit_name)]
        bad == {i \in DOMAIN order : names[i] \notin DOMAIN departure \/ i = fail_at}
        stop == IF bad = {} THEN Len(order) + 1 ELSE Min(bad)
        copied == {names[i] : i \in 1..(stop - 1)}
    IN  [ok |-> bad = {},
         store |-> [n \in DOMAIN st \cup copied |->
                        IF n \in copied THEN departure[n] ELSE st[n]],
         log |-> write_log_line(log, LogLine("PushedCrateOutputs", crate_unit_name, by))]

\* LocalCache::push_crate_outputs: copy the unit's files from the departure
\* directory into the store, stop at the first copy that fails (its source
\* is missing, or the copy into the store fails: fail_at), and append the
\* log line when all have been copied.
PushCrate(st, log, departure, crate_unit_name, order, fail_at, by) ==
    LET names == [i \in DOMAIN order |-> file_name(order[i], crate_unit_name)]
        bad == {i \in DOMAIN order : names[i] \notin DOMAIN departure \/ i = fail_at}
        stop == IF bad = {} THEN Len(order) + 1 ELSE Min(bad)
        copied == {names[i] : i \in 1..(stop - 1)}
    IN  [ok |-> bad = {},
         store |-> [n \in DOMAIN st \cup copied |->
                        IF n \in copied THEN departure[n] ELSE st[n]],
         log |-> IF bad = {}
                 THEN write_log_line(log, LogLine("PushedCrateOutputs", crate_unit_name, by))
                 ELSE log]

StartsWith(s, prefix) == Len(s) >= Len(prefix) /\ SubSeq(s, 1, Len(prefix)) = prefix

\* The places of a one-character pattern in a string.
Places(s, c) == {i \in 1..Len(s) : SubSeq(s, i, i) = c}

\* str::lines: the pieces between line feeds, each without the carriage
\* return that stood before its line feed; the last line needs no line feed.
RECURSIVE str_lines(_)
str_lines(s) ==
    IF s = "" THEN <<>>
    ELSE IF Places(s, "\n") = {} THEN <<s>>
    ELSE LET at == CHOOSE i \in Places(s, "\n") : \A j \in Places(s, "\n") : i <= j
             raw == SubSeq(s, 1, at - 1)
             line == IF raw # "" /\ SubSeq(raw, Len(raw), Len(raw)) = "\r"
                     THEN SubSeq(raw, 1, Len(raw) - 1) ELSE raw
         IN  <<line>> \o str_lines(SubSeq(s, at + 1, Len(s)))

\* println! for each line of a sequence.
RECURSIVE println_each(_)
println_each(ls) ==
    IF ls = <<>> THEN "" ELSE ls[1] \o "\n" \o println_each(Tail(ls))

\* An impersonator that prints every line of the cached stdout.
EmitCachedUnfiltered(build_script_stdout) == println_each(str_lines(build_script_stdout))

\* build_script.rs:69-82: the lines of the cached stdout that do not begin
\* with `cargo:rerun-if-`, each printed with a line feed.
EmitCached(build_script_stdout) ==
    println_each(SelectSeq(str_lines(build_script_stdout),
                           LAMBDA line : ~StartsWith(line, "cargo:rerun-if-")))

stdout_file_name(crate_unit_name) == crate_unit_name \o "-output.txt"

\* build_script.rs calls these get_build_script_stdout / put_build_script_stdout.
pull_build_script_stdout(st, crate_unit_name) ==
    IF stdout_file_name(crate_unit_name) \in DOMAIN st
    THEN Some(st[stdout_file_name(crate_unit_name)])
    ELSE None

\* A store that keeps the stdout without its `cargo:rerun-if-` lines.
push_filtered_build_script_stdout(st, crate_unit_name, content) ==
    [n \in DOMAIN st \cup {stdout_file_name(crate_unit_name)} |->
        IF n = stdout_file_name(crate_unit_name)
        THEN EmitCached(content) ELSE st[n]]

push_build_script_stdout(st, crate_unit_name, content) ==
    [n \in DOMAIN st \cup {stdout_file_name(crate_unit_name)} |->
        IF n = stdout_file_name(crate_unit_name) THEN content ELSE st[n]]

\* The files a unit's invocation declares, and whether the store has them all.
DeclaredFiles(step) ==
    LET inv == Invocation("A", step)
    IN  {file_name(d, UnitOf(step)) : d \in output_defns(inv.crate_types, inv.emit)}

WhollyPresent(st, step) == DeclaredFiles(step) \subseteq DOMAIN st

\* ------------------------------------------------- the real child processes

\* What the real compiler writes for one declared output.  A dependency-info
\* file is a sequence of line classes: 1 a comment, an empty line or a data
\* line that names no build directory; 3 a data line whose target is outside
\* the build directory and one of whose sources is inside; 5 a data line
\* whose target is inside the build directory.
RustcOutput(output_defn) == IF output_defn.tag = "DepInfo" THEN <<1, 3, 5>> ELSE Full

\* What the real build script prints.
ScriptStdout == "cargo:rerun-if-changed=build.rs\ncargo:rustc-cfg=has_i128\n"

\* What the real build script writes to its standard error.
ScriptStderr == "warning: unused\n"

\* A rewriter that writes every line out as it came.
RewriteDepInfoKeepsAll(lines) == lines

\* The rewriter of a pulled dependency-info file, on line classes: class 5 is
\* dropped, class 3 loses its build-directory sources (class 4), the rest is
\* written out.
RewriteDepInfo(lines) ==
    LET kept == SelectSeq(lines, LAMBDA c : c # 5)
    IN  [i \in DOMAIN kept |-> IF kept[i] = 3 THEN 4 ELSE kept[i]]

\* --------------------------------------------------------- strings, paths

\* str::rsplit_once on a one-character separator.
rsplit_once(s, sep) ==
    LET at == {i \in 1..Len(s) : SubSeq(s, i, i) = sep}
        last_at == CHOOSE i \in at : \A j \in at : j <= i
    IN  IF at = {} THEN None
        ELSE Some(<<SubSeq(s, 1, last_at - 1), SubSeq(s, last_at + 1, Len(s))>>)

\* str::split_once on a one-character separator.
split_once(s, sep) ==
    IF Places(s, sep) = {} THEN None
    ELSE LET at == CHOOSE i \in Places(s, sep) : \A j \in Places(s, sep) : i <= j
         IN  Some(<<SubSeq(s, 1, at - 1), SubSeq(s, at + 1, Len(s))>>)

\* str::contains.
str_contains(s, pat) ==
    \E i \in 1..(Len(s) - Len(pat) + 1) : SubSeq(s, i, i + Len(pat) - 1) = pat

\* The white space a line can hold.
WhiteSpace == {" ", "\t", "\r"}

\* str::trim.
RECURSIVE trim_start(_)
trim_start(s) ==
    IF s # "" /\ SubSeq(s, 1, 1) \in WhiteSpace THEN trim_start(SubSeq(s, 2, Len(s))) ELSE s

RECURSIVE trim_end(_)
trim_end(s) ==
    IF s # "" /\ SubSeq(s, Len(s), Len(s)) \in WhiteSpace
    THEN trim_end(SubSeq(s, 1, Len(s) - 1)) ELSE s

str_trim(s) == trim_end(trim_start(s))

\* str::split on a one-character separator: the pieces between the
\* separators, the empty ones too.
RECURSIVE str_split(_, _)
str_split(s, sep) ==
    LET sp == split_once(s, sep)
    IN  IF sp = None THEN <<s>> ELSE <<sp[1][1]>> \o str_split(sp[1][2], sep)

\* A split of the right-hand side that keeps the empty pieces.
deps_with_empty(rest) == str_split(rest, " ")

\* main.rs:301-305: the dependencies of a data line.
deps_of(rest) == SelectSeq(str_split(str_trim(rest), " "), LAMBDA dep : dep # "")

\* A rewriter that writes every dependency out.
RECURSIVE write_all_deps(_)
write_all_deps(deps) ==
    IF deps = <<>> THEN "" ELSE " " \o deps[1] \o write_all_deps(Tail(deps))

\* The dependencies written out, each after a space.
RECURSIVE write_deps(_)
write_deps(deps) ==
    IF deps = <<>> THEN ""
    ELSE (IF str_contains(deps[1], "/build/") THEN "" ELSE " " \o deps[1])
            \o write_deps(Tail(deps))

\* The source paths on the right-hand side of a data line as the compiler
\* writes it: the paths stand between spaces, and a space within a path has
\* a backslash before it.
RECURSIVE SourcePaths(_, _)
SourcePaths(rest, path) ==
    LET c == SubSeq(rest, 1, 1)
        after == SubSeq(rest, 2, Len(rest))
        ended == IF path = "" THEN <<>> ELSE <<path>>
    IN  IF rest = "" THEN ended
        ELSE IF c = "\\" /\ after # ""
        THEN SourcePaths(SubSeq(after, 2, Len(after)), path \o c \o SubSeq(after, 1, 1))
        ELSE IF c \in WhiteSpace THEN ended \o SourcePaths(after, "")
        ELSE SourcePaths(after, path \o c)

\* main.rs:274-323: what the rewriter writes for one line, and whether it
\* found the line well-formed.
rewrite_line(untrimmed) ==
    LET line == str_trim(untrimmed)
        sp == split_once(line, ":")
    IN  IF line = "" \/ StartsWith(line, "#") THEN [ok |-> TRUE, out |-> line \o "\n"]
        ELSE IF sp = None THEN [ok |-> FALSE, out |-> ""]
        ELSE IF str_contains(sp[1][1], "/build/") THEN [ok |-> TRUE, out |-> ""]
        ELSE [ok |-> TRUE,
              out |-> sp[1][1] \o ":" \o write_deps(deps_of(sp[1][2])) \o "\n"]

\* main.rs:270-324: the dependency-info file is read whole, made anew and
\* written line by line; a line without a colon ends the process with what
\* was written till then in the file.
RECURSIVE rewrite_lines(_)
rewrite_lines(ls) ==
    IF ls = <<>> THEN [ok |-> TRUE, text |-> ""]
    ELSE LET r == rewrite_line(ls[1])
         IN  IF ~r.ok THEN [ok |-> FALSE, text |-> ""]
             ELSE LET rest == rewrite_lines(Tail(ls))
                  IN  [ok |-> rest.ok, text |-> r.out \o rest.text]

rewrite_dep_info_text(dep_info_text) == rewrite_lines(str_lines(dep_info_text))

BUILD_SCRIPT_INVOCATION_INFO_FILE_NAME == "build-script-invocation-info.json"

\* A move of the build script that leaves it under its own name.
append_no_suffix(build_script_path) == build_script_path

append_moved_build_script_suffix(build_script_path) ==
    Join(Parent(build_script_path), FileNameOf(build_script_path) \o "-moved-by-hope")

\* A classification that takes every input for a registry source;
\* C9_PassThroughFrame tells it from IsCratesIoInput.
AnyInputIsCratesIo(input_path) == TRUE

\* main.rs:162-167: a component of the input path starts with the registry's
\* directory prefix.
IsCratesIoInput(input_path) ==
    \E i \in DOMAIN input_path : StartsWith(input_path[i], "index.crates.io-")

\* main.rs:410-416: a component of out-dir is "build".
IsBuildScriptOutDir(out_dir) == \E i \in DOMAIN out_dir : out_dir[i] = "build"

\* main.rs:132 (with an absolute argv[0]): the path contains "/build/".
CalledAsBuildScript(called_as, argc) ==
    (\E i \in 1..(Len(called_as) - 1) : called_as[i] = "build") /\ argc = 1

\* A role taken from argv[0] alone.
RoleByPathOnly(argv) ==
    IF argv = <<>> THEN [role |-> "error", called_as |-> "", rustc_path |-> ""]
    ELSE IF str_contains(argv[1], "/build/")
    THEN [role |-> "build_script", called_as |-> argv[1], rustc_path |-> ""]
    ELSE IF Len(argv) < 2 THEN [role |-> "error", called_as |-> argv[1], rustc_path |-> ""]
    ELSE [role |-> "rustc", called_as |-> argv[1], rustc_path |-> argv[2]]

\* main.rs:122-146: the role of the process, from its arguments as they
\* are, and the path it takes for the real compiler's.
Role(argv) ==
    IF argv = <<>> THEN [role |-> "error", called_as |-> "", rustc_path |-> ""]
    ELSE IF str_contains(argv[1], "/build/") /\ Len(argv) = 1
    THEN [role |-> "build_script", called_as |-> argv[1], rustc_path |-> ""]
    ELSE IF Len(argv) < 2 THEN [role |-> "error", called_as |-> argv[1], rustc_path |-> ""]
    ELSE [role |-> "rustc", called_as |-> argv[1], rustc_path |-> argv[2]]

\* The upward walk for the directory that holds ".fingerprint".
RECURSIVE FindFingerprintDir(_, _)
FindFingerprintDir(dir, path) ==
    IF Exists(dir, Join(path, ".fingerprint")) THEN Some(Join(path, ".fingerprint"))
    ELSE IF path = <<>> THEN None
    ELSE FindFingerprintDir(dir, Parent(path))

\* A walk that goes up two directories at a time.
WalkUpByTwo(dir, walk) ==
    IF Exists(dir, Join(walk.path, ".fingerprint"))
    THEN [walk EXCEPT !.state = "found", !.found = Join(walk.path, ".fingerprint")]
    ELSE IF walk.path = <<>> THEN [walk EXCEPT !.state = "error"]
    ELSE [walk EXCEPT !.path = IF Len(@) = 1 THEN <<>> ELSE Parent(Parent(@))]

\* main.rs:667-676: one turn of the loop of the upward walk.  The path has a
\* `.fingerprint` child: the loop ends with it; the path has no parent: the
\* function fails; else the path becomes its parent.
WalkUp(dir, walk) ==
    IF Exists(dir, Join(walk.path, ".fingerprint"))
    THEN [walk EXCEPT !.state = "found", !.found = Join(walk.path, ".fingerprint")]
    ELSE IF walk.path = <<>> THEN [walk EXCEPT !.state = "error"]
    ELSE [walk EXCEPT !.path = Parent(@)]

\* PathBuf::pop: the path becomes its parent; a path without a parent is
\* left as it is.
pop(path) == IF path = <<>> THEN path ELSE Parent(path)

\* Path::ends_with for one component.
ends_with(path, child) == path # <<>> /\ FileNameOf(path) = child

\* An insert that keeps the value a key has.
insert_if_absent(files, key, deps) ==
    [t \in DOMAIN files \cup {key} |->
        IF t \in DOMAIN files THEN files[t] ELSE deps]

\* HashMap::insert: the key gets the value, in the place of one it had.
insert(files, key, deps) ==
    [t \in DOMAIN files \cup {key} |-> IF t = key THEN deps ELSE files[t]]

\* wrapper/src/dep_info.rs:13-29: the loop of DepInfo::parse over the lines
\* that are left, with the map as it is so far.
RECURSIVE parse_lines(_, _)
parse_lines(ls, files) ==
    IF ls = <<>> THEN [ok |-> TRUE, files |-> files]
    ELSE LET line == str_trim(ls[1])
             sp == split_once(line, ":")
         IN  IF line = "" \/ StartsWith(line, "#") THEN parse_lines(Tail(ls), files)
             ELSE IF sp = None THEN [ok |-> FALSE, files |-> NoFiles]
             ELSE parse_lines(Tail(ls),
                              insert(files, sp[1][1],
                                     SelectSeq(str_split(str_trim(sp[1][2]), " "),
                                               LAMBDA d : d # "")))

\* DepInfo::parse.
parse(s) == parse_lines(str_lines(s), NoFiles)

\* A lookup of the sentinel that answers with time 0 when there is none.
get_invoked_timestamp_or_epoch(dir, out_dir, cargo_package_name, metadata_hash) ==
    LET found == FindFingerprintDir(dir, out_dir)
        invoked_timestamp_path ==
            Join(Join(found[1], cargo_package_name \o "-" \o metadata_hash),
                 "invoked.timestamp")
    IN  IF found = None THEN Some(0)
        ELSE IF invoked_timestamp_path \notin DOMAIN dir THEN Some(0)
        ELSE Some(dir[invoked_timestamp_path].mtime)

\* The modification time of the driver's sentinel of the unit, when the
\* sentinel can be read.
get_invoked_timestamp_for_crate_build_unit(dir, out_dir, cargo_package_name, metadata_hash) ==
    LET found == FindFingerprintDir(dir, out_dir)
        invoked_timestamp_path ==
            Join(Join(found[1], cargo_package_name \o "-" \o metadata_hash),
                 "invoked.timestamp")
    IN  IF found = None THEN None
        ELSE IF invoked_timestamp_path \notin DOMAIN dir THEN None
        ELSE Some(dir[invoked_timestamp_path].mtime)

\* ------------------------------------------------------- the wrapper process

\* The state of one wrapper process: the files it shares with the others, its
\* exit code (-1 while it runs) and what it has done; the time its writes
\* carry, and whether the platform's file copy keeps the source's mtime.
Start(st, lg, dir, now, preserves_mtime) ==
    [store |-> st, log |-> lg, fs |-> dir, exit |-> -1, branch |-> "start",
     now |-> now, preserves_mtime |-> preserves_mtime, invoked_timestamp |-> 0,
     rustc_calls |-> <<>>, script_runs |-> 0, arrival |-> NoFiles,
     placed |-> {}, push |-> "none", printed |-> "", trace |-> <<>>,
     child_status |-> 0]

Running(p) == p.exit = -1

\* The exit of the wrapper that takes any failure of a child for an error
\* of its own.
ChildExitAsError(status) == 1

\* The exit of the wrapper after a child that did not succeed: the child's
\* code, or an error (exit code 1) when a signal ended the child, which the
\* status shows as a negative number.
ChildExit(status) == IF status < 0 THEN 1 ELSE status

\* A failure of a child after which the stdout of a run is in the store.
ChildFailedAndStored(p, status) ==
    [p EXCEPT !.exit = ChildExit(status), !.child_status = status,
              !.store = push_build_script_stdout(@, "3", ScriptStdout)]

\* A child ended without success: the wrapper ends too.
ChildFailed(p, status) == [p EXCEPT !.exit = ChildExit(status), !.child_status = status]

\* The real build script, run to completion: it writes into its OUT_DIR.
RealScriptEffect(dir, out_dir, now) ==
    Write(dir, Join(out_dir, "consts.rs"), Stamped(RegularFile(Full), now))

\* std::fs::copy: the mtime of the copy is the source's where the platform
\* keeps it, and the time of the copy elsewhere.
\* A copy whose file gets its time from a clock that runs ahead.
CopiedMtimeAhead(p, source_mtime) == p.now + 2

CopiedMtime(p, source_mtime) == IF p.preserves_mtime THEN source_mtime ELSE p.now

\* run_real_rustc: the child gets the original arguments; a failure ends the
\* wrapper with the child's code.  nd.produced are the declared outputs the
\* compiler writes into out-dir.
run_real_rustc(p, inv, unit, nd) ==
    LET called == [p EXCEPT !.rustc_calls =
                        Append(@, [path |-> inv.rustc_path, args |-> inv.pass]),
                            !.trace = Append(@, "rustc")]
    IN  IF nd.rustc # 0 THEN ChildFailed(called, nd.rustc)
        ELSE IF inv.out_dir = None THEN called
        ELSE [called EXCEPT !.fs =
                [q \in DOMAIN p.fs \cup {Join(inv.out_dir[1], file_name(d, unit)) : d \in nd.produced}
                    |-> IF \E d \in nd.produced : q = Join(inv.out_dir[1], file_name(d, unit))
                        THEN Stamped(RegularFile(RustcOutput(
                                CHOOSE d \in nd.produced : q = Join(inv.out_dir[1], file_name(d, unit)))),
                                p.now)
                        ELSE p.fs[q]]]

\* main.rs:260-332: what out-dir gets for one pulled file.
PlacedData(output_defn, data) ==
    IF output_defn.tag = "DepInfo" THEN RewriteDepInfo(data) ELSE data

\* An arrival directory whose files keep the time 0 at which they were made.
ArrivalMtimeUnset(p, output_defn) == 0

\* main.rs:260-332: the mtime of one file in the arrival directory when it is
\* copied to out-dir: set to the invoked timestamp (main.rs:263), and for the
\* dependency-info file then changed by the rewrite (main.rs:271).
ArrivalMtime(p, output_defn) ==
    IF output_defn.tag = "DepInfo" THEN p.now ELSE p.invoked_timestamp

\* main.rs:257-335: every pulled file goes from the arrival directory to
\* out-dir, the dependency-info file rewritten on the way.
PlacePulled(p, out_dir, unit, defns) ==
    [p EXCEPT
        !.fs = [q \in DOMAIN p.fs \cup {Join(out_dir, file_name(d, unit)) : d \in defns} |->
                  IF \E d \in defns : q = Join(out_dir, file_name(d, unit))
                  THEN LET d == CHOOSE e \in defns : q = Join(out_dir, file_name(e, unit))
                           data == p.arrival[file_name(d, unit)]
                       IN  Stamped(RegularFile(PlacedData(d, data)),
                                   CopiedMtime(p, ArrivalMtime(p, d)))
                  ELSE p.fs[q]],
        !.placed = {file_name(d, unit) : d \in defns}]

\* A rewind that leaves every mtime as it is.
RewindNothing(dir, build_script_out_dir, invoked_timestamp) == dir

\* main.rs:366-380: every file under the build script's out dir gets the
\* mtime of the build script run's sentinel.
Rewind(dir, build_script_out_dir, invoked_timestamp) ==
    [q \in DOMAIN dir |-> IF IsPrefix(build_script_out_dir, q)
                          THEN Stamped(dir[q], invoked_timestamp) ELSE dir[q]]

\* A wrapper that leaves a recipe in out-dir alone.
IgnoreDeferredScript(p, out_dir, nd) == p

\* main.rs:342-381: a recipe in out-dir makes the wrapper run the real build
\* script before the real compiler.
RunDeferredScript(p, out_dir, nd) ==
    LET info_path == Join(out_dir, BUILD_SCRIPT_INVOCATION_INFO_FILE_NAME)
    IN  IF info_path \notin DOMAIN p.fs THEN p
        ELSE LET info == p.fs[info_path].info
                 ran == [p EXCEPT !.script_runs = @ + 1, !.trace = Append(@, "script")]
                 written == RealScriptEffect(p.fs, info.out_dir, p.now)
                 invoked_timestamp_path == Join(Parent(info.out_dir), "invoked.timestamp")
             IN  IF info.real_build_script_path \notin DOMAIN p.fs THEN [p EXCEPT !.exit = 1]
                 ELSE IF nd.script # 0 THEN ChildFailed(ran, nd.script)
                 ELSE IF invoked_timestamp_path \notin DOMAIN written
                 THEN [ran EXCEPT !.fs = written, !.exit = 1]
                 ELSE [ran EXCEPT !.fs = Rewind(written, info.out_dir,
                                                written[invoked_timestamp_path].mtime)]

\* main.rs:386-406: copy the declared outputs to the departure directory and
\* push them; either failing ends main with an error (exit code 1).
CopyAndPush(p, out_dir, unit, order, nd, by) ==
    LET names == {file_name(order[i], unit) : i \in DOMAIN order}
    IN  IF \E n \in names : Join(out_dir, n) \notin DOMAIN p.fs
        THEN [p EXCEPT !.exit = 1, !.push = "no-departure"]
        ELSE LET departure == [n \in names |-> p.fs[Join(out_dir, n)].data]
                 pushed == PushCrate(p.store, p.log, departure, unit, order, nd.fail_at, by)
             IN  IF pushed.ok
                 THEN [p EXCEPT !.store = pushed.store, !.log = pushed.log, !.push = "ok",
                                !.trace = Append(@, "push")]
                 ELSE [p EXCEPT !.store = pushed.store, !.log = pushed.log,
                                !.push = "failed", !.exit = 1,
                                !.trace = Append(@, "push")]

\* main.rs:431-459: move the build script aside, link real-build-script to
\* it, and put a copy of the wrapper in its place.
SubstituteBuildScript(p, out_dir, unit) ==
    LET build_script_path == Join(out_dir, unit)
        moved_build_script_path == append_moved_build_script_suffix(build_script_path)
        real_build_script_symlink_path == Join(out_dir, "real-build-script")
    IN  IF build_script_path \notin DOMAIN p.fs THEN [p EXCEPT !.exit = 1]
        ELSE LET renamed == Write(Remove(p.fs, build_script_path),
                                  moved_build_script_path, p.fs[build_script_path])
             IN  IF real_build_script_symlink_path \in DOMAIN renamed
                 THEN [p EXCEPT !.fs = renamed, !.exit = 1]
                 ELSE [p EXCEPT !.fs =
                         Write(Write(renamed, real_build_script_symlink_path,
                                     Stamped(Symlink(moved_build_script_path), p.now)),
                               build_script_path,
                               Stamped(RegularFile(HopeExe), p.invoked_timestamp))]

Finish(p) == IF Running(p) THEN [p EXCEPT !.exit = 0] ELSE p

\* main.rs:227-460: an invocation for a crates.io unit: pull, or build and
\* push, then the build-script substitution when out-dir calls for it.
Cacheable(p, inv, unit, nd, by) ==
    LET out_dir == inv.out_dir[1]
        defns == output_defns(inv.crate_types, inv.emit)
        pulled == PullCrate(p.store, p.log, unit, nd.order, by)
        hit == PlacePulled([p EXCEPT !.log = pulled.log, !.arrival = pulled.arrival,
                                     !.branch = "hit"], out_dir, unit, defns)
        miss0 == [p EXCEPT !.log = pulled.log, !.arrival = pulled.arrival,
                           !.branch = "miss"]
        miss1 == RunDeferredScript(miss0, out_dir, nd)
        miss2 == IF Running(miss1) THEN run_real_rustc(miss1, inv, unit, nd) ELSE miss1
        miss3 == IF Running(miss2) THEN CopyAndPush(miss2, out_dir, unit, nd.order, nd, by)
                 ELSE miss2
        after == IF pulled.ok THEN hit ELSE miss3
    IN  IF Running(after) /\ IsBuildScriptOutDir(out_dir)
        THEN SubstituteBuildScript(after, out_dir, unit)
        ELSE after

\* main.rs:155-171: no input, or an input outside the registry's sources.
IsPassThrough(inv) ==
    \/ inv.input = None
    \/ ~IsCratesIoInput(inv.input[1])

\* main.rs main, in the compiler role.
main(p, inv, nd, by) ==
    LET extra_filename == FindCodegenOption(inv.codegen_options, "extra-filename")
        metadata_hash == FindCodegenOption(inv.codegen_options, "metadata")
        unit == IF inv.crate_name # None /\ extra_filename # None
                THEN inv.crate_name[1] \o extra_filename[1] ELSE ""
    IN  IF IsPassThrough(inv)
        THEN Finish(run_real_rustc([p EXCEPT !.branch = "passthrough"], inv, unit, nd))
        ELSE IF \/ inv.out_dir = None
                \/ inv.crate_name = None
                \/ extra_filename = None
                \/ metadata_hash = None
                \/ inv.cargo_pkg_name = None
        THEN [p EXCEPT !.exit = 1, !.branch = "error"]
        ELSE LET invoked_timestamp == get_invoked_timestamp_for_crate_build_unit(
                    p.fs, inv.out_dir[1], inv.cargo_pkg_name[1], metadata_hash[1])
             IN  IF invoked_timestamp = None
                 THEN [p EXCEPT !.exit = 1, !.branch = "error"]
                 ELSE Finish(Cacheable([p EXCEPT !.invoked_timestamp = invoked_timestamp[1]],
                                       inv, unit, nd, by))

\* build_script.rs run: the wrapper in the place of a build script.
build_script_run(p, called_as, env_out_dir, work_dir, nd, by) ==
    LET build_script_build_dir == Parent(called_as)
        real_build_script_symlink_path == Join(build_script_build_dir, "real-build-script")
        split == IF env_out_dir = None THEN None
                 ELSE rsplit_once(FileNameOf(Parent(env_out_dir[1])), "-")
    IN  IF split = None THEN [p EXCEPT !.exit = 1, !.branch = "error"]
        ELSE
        LET out_dir == env_out_dir[1]
            crate_name == split[1][1]
            run_metadata_hash == split[1][2]
            logged == [p EXCEPT !.log = write_log_line(@,
                            LogLine("RanBuildScriptWrapper", crate_name, by))]
            cached == pull_build_script_stdout(p.store, run_metadata_hash)
        IN  IF cached # None
            THEN LET told == [logged EXCEPT !.branch = "deferred",
                                  !.printed = EmitCached(cached[1])]
                 IN  IF \/ real_build_script_symlink_path \notin DOMAIN p.fs
                        \/ p.fs[real_build_script_symlink_path].link = <<>>
                     THEN [told EXCEPT !.exit = 1]
                     ELSE Finish([told EXCEPT !.fs =
                            Write(p.fs, Join(out_dir, BUILD_SCRIPT_INVOCATION_INFO_FILE_NAME),
                                  [data |-> <<>>, link |-> <<>>, mtime |-> p.now,
                                   info |-> [real_build_script_path |->
                                                p.fs[real_build_script_symlink_path].link,
                                             work_dir |-> work_dir,
                                             out_dir |-> out_dir]])])
            ELSE LET eager == [logged EXCEPT !.branch = "eager"]
                 IN  IF real_build_script_symlink_path \notin DOMAIN p.fs
                     THEN [eager EXCEPT !.exit = 1]
                     ELSE IF nd.script # 0
                     THEN ChildFailed([eager EXCEPT !.script_runs = @ + 1,
                                                    !.trace = Append(@, "script")], nd.script)
                     ELSE Finish([eager EXCEPT
                            !.script_runs = @ + 1,
                            !.trace = Append(@, "script"),
                            !.fs = RealScriptEffect(p.fs, out_dir, p.now),
                            !.log = write_log_line(@, LogLine("RanBuildScript", crate_name, by)),
                            !.printed = ScriptStdout \o ScriptStderr,
                            !.store = push_build_script_stdout(@, run_metadata_hash, ScriptStdout)])

\* ------------------------------------------------------------------ driver

\* The choices one invocation leaves open: the order of the declared outputs,
\* the real compiler's exit status and the outputs it writes, the store copy
\* that fails (0: none), the real build script's exit status (a negative
\* status: ended by a signal), and whether the driver wrote the sentinel of
\* the unit before it started the wrapper.
Choices(defns) ==
    LET any == CHOOSE o \in Orders(defns) : TRUE
        n == Cardinality(defns)
    IN  {[order |-> o, rustc |-> 0, produced |-> defns, fail_at |-> k, script |-> 0,
          sentinel |-> TRUE] : o \in Orders(defns), k \in 0..n}
        \cup {[order |-> any, rustc |-> c, produced |-> defns, fail_at |-> 0, script |-> 0,
               sentinel |-> TRUE] : c \in {101, -9}}
        \cup {[order |-> any, rustc |-> 0, produced |-> defns \ {d}, fail_at |-> 0,
               script |-> 0, sentinel |-> TRUE] : d \in {e \in defns : e.tag = "DepInfo"}}
        \cup {[order |-> any, rustc |-> 0, produced |-> defns, fail_at |-> 0, script |-> c,
               sentinel |-> TRUE] : c \in {101, -9}}
        \cup {[order |-> any, rustc |-> 0, produced |-> defns, fail_at |-> 0, script |-> 0,
               sentinel |-> FALSE]}

\* The driver's sentinel of a step: for a compiler call in the fingerprint
\* directory under package name and metadata hash, for the run of a build
\* script in the directory of the run.
SentinelOf(w, step) ==
    IF step = "run" THEN Join(ScriptRunDir(w), "invoked.timestamp")
    ELSE LET inv == Invocation(w, step)
         IN  Join(Join(Join(TargetDir(w), ".fingerprint"),
                       inv.cargo_pkg_name[1] \o "-"
                            \o FindCodegenOption(inv.codegen_options, "metadata")[1]),
                  "invoked.timestamp")


\* What the driver does before it starts the wrapper for a step: the source
\* of the unit is in place, and the sentinel is written at the time the
\* driver takes for the start of the step.
DriverStart(dir, w, step, sentinel, invoked_at) ==
    LET inv == Invocation(w, step)
        unpacked == IF step # "run" /\ inv.input # None /\ inv.input[1] \notin DOMAIN dir
                    THEN Write(dir, inv.input[1], Stamped(RegularFile(<<>>), invoked_at))
                    ELSE dir
    IN  IF sentinel /\ step # "probe"
        THEN Write(unpacked, SentinelOf(w, step), Stamped(RegularFile(<<>>), invoked_at))
        ELSE unpacked

\* The dependencies one line of a dependency-info file lists, by its class:
\* the source of the unit, and for class 3 a file the build script writes.
ListedBy(w, step, class) ==
    CASE class \in {1, 4} -> {Invocation(w, step).input[1]}
      [] class = 3 -> {Invocation(w, step).input[1], Join(ScriptOutDir(w), "consts.rs")}
      [] OTHER -> {}

\* The driver's rule for building a unit again: a file the unit emits is
\* missing or older than the unit's sentinel, or a dependency that the
\* unit's dependency-info file lists is missing or newer than the sentinel.
Dirty(dir, w, step) ==
    LET out_dir == Invocation(w, step).out_dir[1]
        emitted == {Join(out_dir, n) : n \in DeclaredFiles(step)}
        dep_info == Join(out_dir, UnitOf(step) \o ".d")
        sentinel == dir[SentinelOf(w, step)].mtime
        listed == IF dep_info \in DOMAIN dir
                  THEN UNION {ListedBy(w, step, dir[dep_info].data[i]) :
                                i \in DOMAIN dir[dep_info].data}
                  ELSE {}
    IN  \/ SentinelOf(w, step) \notin DOMAIN dir
        \/ \E q \in emitted : q \notin DOMAIN dir \/ dir[q].mtime < sentinel
        \/ \E q \in listed : q \notin DOMAIN dir \/ dir[q].mtime > sentinel

\* The path the driver runs the build script at: a link to the file the
\* compiler call for the build script left under the unit's name.
InvokedScriptPath(w) == Join(ScriptBuildDir(w), "build-script-build")

Summary(role, w, step, p) ==
    [role |-> role, w |-> w, step |-> step, exit |-> p.exit, branch |-> p.branch,
     rustc_calls |-> p.rustc_calls, script_runs |-> p.script_runs,
     arrival |-> DOMAIN p.arrival, placed |-> p.placed, push |-> p.push,
     printed |-> p.printed, trace |-> p.trace, child_status |-> p.child_status]

\* ------------------------------------------- wrapper processes side by side

\* Two wrapper processes, started for the same unit by two builds that share
\* the store.  Each goes through main step by step: a step is the copy of
\* one file out of the store, the run of the real compiler, the opening of
\* one file in the store, the writing of one chunk of it, or the append of
\* a log line.
Procs == {"P1", "P2"}

\* The processes that append a line to the log file at the same time.
Appenders == {"L1", "L2", "L3"}

ConcStep == "typenum"
ConcUnit == UnitOf(ConcStep)
ConcDefns == output_defns(Invocation("A", ConcStep).crate_types, Invocation("A", ConcStep).emit)

StartProc(order) ==
    [pc |-> "pull", order |-> order, i |-> 1, off |-> 1, arrival |-> NoFiles,
     out |-> NoFiles, exit |-> -1, raced |-> FALSE]

\* File::create on the destination of std::fs::copy: the file is there, empty.
Truncate(st, name) == [n \in DOMAIN st \cup {name} |-> IF n = name THEN <<>> ELSE st[n]]

\* A write that puts every chunk at the end of the file;
\* C6_ConcurrentPushesEndWhole tells it from WriteAt.
WriteAtEnd(data, off, chunk) == Append(data, chunk)

\* One chunk written at the writer's own offset; what lies between the end
\* of the file and the offset reads as zeros.
WriteAt(data, off, chunk) ==
    [k \in 1..(IF Len(data) > off THEN Len(data) ELSE off) |->
        IF k = off THEN chunk ELSE IF k <= Len(data) THEN data[k] ELSE 0]

\* An appender before its call of write_log_line.
NoAppend == [pc |-> "idle", written |-> 0]

\* The line an appender writes, as the pieces the file gets it in; the last
\* piece ends with the newline.
LinePieces(a) ==
    [k \in 1..LineChunks |-> [line |-> LogLine("PushedCrateOutputs", ConcUnit, a), piece |-> k]]

VARIABLES
    store,        \* the store's files: name -> content
    log,          \* the event log, a sequence of lines
    fs,           \* each workspace's files: path -> file
    done,         \* the steps the driver holds to be up to date, per workspace
    scriptRuns,   \* the runs of the real build script, per workspace
    invocations,  \* the wrapper processes started so far
    last,         \* what the last wrapper process did
    preserves,    \* whether the platform's file copy keeps the mtime
    proc,         \* the wrapper processes that run side by side (SpecConc)
    logFile,      \* the log file, write by write (SpecLog)
    appender,     \* the processes that append to the log file (SpecLog)
    call          \* one call of a function of the wrapper (SpecFn)

vars == <<store, log, fs, done, scriptRuns, invocations, last, preserves,
          proc, logFile, appender, call>>

\* What the specification of whole wrapper processes leaves alone.
sideVars == <<proc, logFile, appender, call>>

\* Time, as the mtimes of one workspace show it, ticks with the progress of
\* the build: the driver starts a step at an odd time, and what the wrapper
\* writes for the step carries the even time after it.
InvokedAt(w) == 2 * Cardinality(done[w]) + 1

WrittenAt(w) == InvokedAt(w) + 1

NoLast == Summary("none", "", "", Start(NoFiles, <<>>, EmptyDir, 0, FALSE))

NoCall == [fn |-> "none", given |-> <<>>, result |-> <<>>, passes |-> 0]

InitSide ==
    /\ proc = [p \in Procs |-> StartProc(CHOOSE o \in Orders(ConcDefns) : TRUE)]
    /\ logFile = <<>>
    /\ appender = [a \in Appenders |-> NoAppend]
    /\ call = NoCall

InitBuilds(workspaces) ==
    /\ store = NoFiles
    /\ log = <<>>
    /\ fs = [w \in workspaces |-> EmptyDir]
    /\ done = [w \in workspaces |-> {}]
    /\ scriptRuns = [w \in workspaces |-> 0]
    /\ invocations = 0
    /\ last = NoLast

Init ==
    /\ InitBuilds(Workspaces)
    /\ preserves \in BOOLEAN
    /\ InitSide

\* The driver starts a step once the steps it needs are up to date, and
\* asks the compiler for its version before it builds anything.  Of the two
\* builds of a layout, which are alike, A (or F) is the one that starts its
\* first wrapper process first.
Ready(w, step) ==
    /\ step \notin done[w]
    /\ Needs(step) \subseteq done[w]
    /\ step = "probe" => done[w] = {}
    /\ invocations = 0 => w \in {"A", "F"}

UpToDate(w, step, exit) ==
    IF exit = 0 /\ step # "probe" THEN [done EXCEPT ![w] = @ \cup {step}] ELSE done

\* The driver starts the wrapper as the compiler for one step of a build.
CompilerRole(w, step) ==
    /\ invocations < MaxInvocations
    /\ Ready(w, step)
    /\ LET inv == Invocation(w, step)
       IN  \E nd \in Choices(output_defns(inv.crate_types, inv.emit)) :
            \E p \in {main(Start(store, log,
                                 DriverStart(fs[w], w, step, nd.sentinel, InvokedAt(w)),
                                 WrittenAt(w), preserves), inv, nd, w)} :
            LET linked == IF p.exit = 0 /\ step = "bs"
                          THEN Write(p.fs, InvokedScriptPath(w),
                                     p.fs[Join(ScriptBuildDir(w), UnitOf(step))])
                          ELSE p.fs
            IN  /\ store' = p.store
                /\ log' = p.log
                /\ fs' = [fs EXCEPT ![w] = linked]
                /\ done' = UpToDate(w, step, p.exit)
                /\ scriptRuns' = [scriptRuns EXCEPT ![w] = @ + p.script_runs]
                /\ invocations' = invocations + 1
                /\ last' = Summary("compiler", w, step, p)
                /\ UNCHANGED <<preserves, sideVars>>

\* The driver runs the build script, which is the wrapper's copy.
BuildScriptRole(w) ==
    /\ invocations < MaxInvocations
    /\ Ready(w, "run")
    /\ InvokedScriptPath(w) \in DOMAIN fs[w]
    /\ fs[w][InvokedScriptPath(w)].data = HopeExe
    /\ CalledAsBuildScript(InvokedScriptPath(w), 1)
    /\ \E nd \in Choices({}) :
        \E p \in {build_script_run(Start(store, log,
                                         DriverStart(fs[w], w, "run", nd.sentinel, InvokedAt(w)),
                                         WrittenAt(w), preserves),
                                   InvokedScriptPath(w), Some(ScriptOutDir(w)),
                                   RegistrySrc \o <<"typenum-1.17.0">>, nd, w)} :
            /\ store' = p.store
            /\ log' = p.log
            /\ fs' = [fs EXCEPT ![w] = p.fs]
            /\ done' = UpToDate(w, "run", p.exit)
            /\ scriptRuns' = [scriptRuns EXCEPT ![w] = @ + p.script_runs]
            /\ invocations' = invocations + 1
            /\ last' = Summary("script", w, "run", p)
            /\ UNCHANGED <<preserves, sideVars>>

Next ==
    \/ \E w \in Workspaces, step \in CompileSteps : CompilerRole(w, step)
    \/ \E w \in Workspaces : BuildScriptRole(w)

Spec == Init /\ [][Next]_vars

\* The same driver with the flat layout.
InitFlat ==
    /\ InitBuilds(FlatWorkspaces)
    /\ preserves = FALSE
    /\ InitSide

NextFlat ==
    \/ \E w \in FlatWorkspaces, step \in CompileSteps : CompilerRole(w, step)
    \/ \E w \in FlatWorkspaces : BuildScriptRole(w)

SpecFlat == InitFlat /\ [][NextFlat]_vars

InitConc ==
    /\ InitBuilds(Workspaces)
    /\ preserves = FALSE
    /\ proc \in [Procs -> {StartProc(o) : o \in Orders(ConcDefns)}]
    /\ logFile = <<>>
    /\ appender = [a \in Appenders |-> NoAppend]
    /\ call = NoCall

ProcFile(p) == file_name(proc[p].order[proc[p].i], ConcUnit)

\* cache.rs:96-120, one turn of the loop of pull_crate_outputs: the copy of
\* one file takes the file as it is in the store now.  After the last one:
\* the log line (cache.rs:123-131) and the files placed in out-dir.
ConcPullFile(p) ==
    /\ proc[p].pc = "pull"
    /\ IF ProcFile(p) \notin DOMAIN store
       THEN /\ proc' = [proc EXCEPT ![p].pc = "rustc"]
            /\ UNCHANGED log
       ELSE LET arrival == [n \in DOMAIN proc[p].arrival \cup {ProcFile(p)} |->
                              IF n = ProcFile(p) THEN store[n] ELSE proc[p].arrival[n]]
            IN  IF proc[p].i < Len(proc[p].order)
                THEN /\ proc' = [proc EXCEPT ![p].arrival = arrival, ![p].i = @ + 1]
                     /\ UNCHANGED log
                ELSE /\ proc' = [proc EXCEPT ![p].arrival = arrival, ![p].pc = "pulled",
                                    ![p].exit = 0,
                                    ![p].out = [n \in DOMAIN arrival |->
                                        PlacedData(CHOOSE d \in ConcDefns :
                                                     file_name(d, ConcUnit) = n, arrival[n])]]
                     /\ log' = write_log_line(log, LogLine("PulledCrateOutputs", ConcUnit, p))
    /\ UNCHANGED <<store, fs, done, scriptRuns, invocations, last, preserves, logFile, appender, call>>

\* main.rs:384-402: the real compiler writes the outputs, which are copied
\* to the departure directory.
ConcRustc(p) ==
    /\ proc[p].pc = "rustc"
    /\ proc' = [proc EXCEPT ![p].pc = "open", ![p].i = 1,
                    ![p].out = [n \in {file_name(d, ConcUnit) : d \in ConcDefns} |->
                        RustcOutput(CHOOSE d \in ConcDefns : file_name(d, ConcUnit) = n)]]
    /\ UNCHANGED <<store, log, fs, done, scriptRuns, invocations, last, preserves, logFile, appender, call>>

\* cache.rs:157-163, std::fs::copy into the store, first half: the
\* destination is created, or emptied when it is there.
ConcPushOpen(p) ==
    /\ proc[p].pc = "open"
    /\ store' = Truncate(store, ProcFile(p))
    /\ proc' = [proc EXCEPT ![p].pc = "write", ![p].off = 1,
                    ![p].raced = @ \/ \E q \in Procs \ {p} :
                        proc[q].pc = "write" /\ ProcFile(q) = ProcFile(p)]
    /\ UNCHANGED <<log, fs, done, scriptRuns, invocations, last, preserves, logFile, appender, call>>

\* cache.rs:157-163, std::fs::copy into the store, second half: the content
\* goes in chunk by chunk.
ConcPushWrite(p) ==
    /\ proc[p].pc = "write"
    /\ store' = [store EXCEPT ![ProcFile(p)] =
                    WriteAt(@, proc[p].off, proc[p].out[ProcFile(p)][proc[p].off])]
    /\ proc' = IF proc[p].off < Len(proc[p].out[ProcFile(p)])
               THEN [proc EXCEPT ![p].off = @ + 1]
               ELSE IF proc[p].i < Len(proc[p].order)
               THEN [proc EXCEPT ![p].pc = "open", ![p].i = @ + 1]
               ELSE [proc EXCEPT ![p].pc = "log"]
    /\ UNCHANGED <<log, fs, done, scriptRuns, invocations, last, preserves, logFile, appender, call>>

\* cache.rs:166-174: the log line of a push that copied every file.
ConcPushLog(p) ==
    /\ proc[p].pc = "log"
    /\ log' = write_log_line(log, LogLine("PushedCrateOutputs", ConcUnit, p))
    /\ proc' = [proc EXCEPT ![p].pc = "pushed", ![p].exit = 0]
    /\ UNCHANGED <<store, fs, done, scriptRuns, invocations, last, preserves, logFile, appender, call>>

NextConc ==
    \E p \in Procs :
        \/ ConcPullFile(p)
        \/ ConcRustc(p)
        \/ ConcPushOpen(p)
        \/ ConcPushWrite(p)
        \/ ConcPushLog(p)

SpecConc == InitConc /\ [][NextConc]_vars

\* ------------------------------------------------ appends to the log file

\* Wrapper processes that have reached write_log_line at the same time.
InitLog ==
    /\ InitBuilds(Workspaces)
    /\ preserves = FALSE
    /\ InitSide

logFrame == <<store, log, fs, done, scriptRuns, invocations, last, preserves, proc, call>>

\* lib.rs:72-75: the log file is opened for appending, and made if it is
\* not there.  Nothing is locked.
LogOpen(a) ==
    /\ appender[a].pc = "idle"
    /\ appender' = [appender EXCEPT ![a].pc = "open"]
    /\ UNCHANGED <<logFile, logFrame>>

\* lib.rs:76-79: the line and its newline are collected in the BufWriter,
\* and the flush hands them to the file: each write call puts the pieces the
\* file takes of it at what is then the end of the file, and the rest is
\* left for the next call.
LogWrite(a) ==
    /\ appender[a].pc = "open"
    /\ \E n \in 1..(LineChunks - appender[a].written) :
        LET from == appender[a].written + 1
            upto == appender[a].written + n
        IN  /\ logFile' = logFile \o SubSeq(LinePieces(a), from, upto)
            /\ appender' = [appender EXCEPT
                    ![a].written = upto,
                    ![a].pc = IF upto = LineChunks THEN "done" ELSE "open"]
    /\ UNCHANGED logFrame

NextLog ==
    \E a \in Appenders :
        \/ LogOpen(a)
        \/ LogWrite(a)

SpecLog == InitLog /\ [][NextLog]_vars

\* ------------------------------------------------ calls of one function

\* The lines of dependency-info files: an empty line, comments, data lines
\* with and without sources, with the target or a source in a build
\* directory, with a space in a path (written with a backslash before it),
\* and with white space that the compiler does not write itself.
DepInfoLines ==
    {"",
     "# env-dep:OUT_DIR",
     "/t/deps/x.d: /r/src/lib.rs",
     "/t/deps/x.d: /r/src/lib.rs /t/build/x-3/out/c.rs",
     "/t/build/x-3/out/c.rs:",
     "/r/src/lib.rs:",
     "/t/deps/x.d: /my\\ t/build/x-3/out/c.rs /r/src/lib.rs",
     "/t/deps/x.d: /r/my\\ src/lib.rs",
     "  # indented",
     "x.d:a.rs  b.rs "}

RECURSIVE Unlines(_)
Unlines(ls) == IF ls = <<>> THEN "" ELSE ls[1] \o "\n" \o Unlines(Tail(ls))

Texts(line_set, max) ==
    {Unlines(ls) : ls \in UNION {[1..n -> line_set] : n \in 0..max}}

\* The lines a build script prints: instructions for the driver with and
\* without the `cargo:rerun-if-` prefix, a line that stops short of the
\* prefix, a line with a space before it, an empty line.
\* The texts are of such lines, each line ended by a line feed, the last
\* line with or without it.
StdoutTexts ==
    LET StdoutLines ==
            {"cargo:rerun-if-changed=build.rs",
             "cargo:rerun-if-env-changed=CC",
             "cargo:rustc-cfg=has_i128",
             "cargo:rerun-if",
             " cargo:rerun-if-changed=x",
             ""}
        whole == Texts(StdoutLines, MaxLines)
    IN  whole \cup {SubSeq(t, 1, Len(t) - 1) : t \in whole \ {""}}

\* The store that holds a text as the stdout of the build script's run.
CachedStore(text) ==
    push_build_script_stdout(NoFiles, rsplit_once(FileNameOf(ScriptRunDir("A")), "-")[1][2], text)

\* Every output definition: the variants of OutputDefn, the linked artifact
\* with each CrateType.
FileNameInputs ==
    LET CrateTypes == {"Lib", "Rlib", "Staticlib", "Dylib", "Cdylib", "Bin", "ProcMacro"}
        OutputTypes == {"Asm", "LlvmBc", "LlvmIr", "Obj", "Metadata", "DepInfo", "Mir"}
        OutputDefns == {OutputDefn(t, "") : t \in OutputTypes}
                            \cup {OutputDefn("Link", ct) : ct \in CrateTypes}
        UnitNames == {"typenum-4", "build_script_main-2", "foo-5"}
    IN  [target_os : {"linux", "macos"}, output_defn : OutputDefns,
         crate_unit_name : UnitNames]

\* The arguments of a process: the path it was called by (the build script
\* in its build directory, the wrapper in its own place, paths with
\* `build` in them that is not a directory of its own), and up to MaxArgs
\* arguments after it.
Argvs ==
    LET CalledAs ==
            {"/t/debug/build/typenum-2/build-script-build",
             "/usr/bin/hope",
             "/t/rebuild/hope",
             "build/hope",
             "/t/build"}
        Args == {"/usr/bin/rustc", "-vV", "-"}
    IN  {<<called_as>> \o rest :
            called_as \in CalledAs, rest \in UNION {[1..n -> Args] : n \in 0..MaxArgs}}

\* An invocation without one of its options.
Without(inv, option) ==
    CASE option = "out-dir" -> [inv EXCEPT !.out_dir = None]
      [] option = "crate-name" -> [inv EXCEPT !.crate_name = None]
      [] option \in {"extra-filename", "metadata"} ->
            [inv EXCEPT !.codegen_options = SelectSeq(@, LAMBDA o : o.key # option)]
      [] OTHER -> inv

\* A store that holds the units of the package, a log with their events,
\* and the workspace of a build that has come to the step.
PushedBy(w, step) ==
    LET inv == Invocation(w, step)
        defns == output_defns(inv.crate_types, inv.emit)
    IN  main(Start(NoFiles, <<>>, DriverStart(EmptyDir, w, step, TRUE, 1), 2, FALSE), inv,
             CHOOSE nd \in Choices(defns) :
                nd.rustc = 0 /\ nd.fail_at = 0 /\ nd.script = 0 /\ nd.sentinel
                    /\ nd.produced = defns,
             w)

\* An invocation with the --emit and --crate-type options it came with
\* ("all"), without --emit ("none"), or with --emit=link and no --crate-type
\* ("link").
WithEmit(inv, emit) ==
    CASE emit = "none" -> [inv EXCEPT !.emit = {}]
      [] emit = "link" -> [inv EXCEPT !.emit = {"Link"}, !.crate_types = {}]
      [] OTHER -> inv

\* The directories under /home that hold the workspace of the call (`at`)
\* are one of the builds', and a directory with the name `build`.
MainInputs ==
    [step : {"bs", "typenum", "foo"},
     missing : {"none", "out-dir", "crate-name", "extra-filename", "metadata"},
     emit : {"all", "none", "link"},
     stored : BOOLEAN,
     at : {"B", "build"}]

MainStart(given) ==
    Start(IF given.stored THEN PushedBy("A", given.step).store ELSE NoFiles,
          IF given.stored THEN PushedBy("A", given.step).log ELSE <<>>,
          DriverStart(EmptyDir, given.at, given.step, TRUE, 1), 2, FALSE)

\* The out-dirs the walk starts from, and the directories among which
\* those with a `.fingerprint` child are drawn.
WalkInputs ==
    LET WalkOutDirs ==
            {<<>>, <<"t">>, <<"t", "debug">>, <<"t", "debug", "deps">>,
             <<"t", "debug", "build", "typenum-2">>}
        WalkDirs == {<<>>, <<"t">>, <<"t", "debug">>, <<"t", "debug", "deps">>, <<"other">>}
    IN  [out_dir : WalkOutDirs, with_fingerprint : SUBSET WalkDirs]

\* The files of a tree in which the given directories hold the driver's
\* sentinel of a unit.
WalkTree(with_fingerprint) ==
    [q \in {d \o <<".fingerprint", "typenum-4", "invoked.timestamp">> : d \in with_fingerprint}
        |-> RegularFile(<<>>)]

\* The lines of the files DepInfo::parse is given: those of the
\* prototype's test, lines that name a target again, a line without a
\* colon.
ParseLines ==
    {"",
     "    # Some comments",
     "/t/deps/x: src/main.rs",
     "/t/deps/x: src/main.rs src/a.rs",
     "/t/deps/x:",
     "    src/main.rs:",
     "x.d:b.rs  a.rs ",
     "no colon"}

Call(fn, given) == [fn |-> fn, given |-> given, result |-> <<>>, passes |-> 0]

\* The calls SpecFn starts from.  The out-dirs of the prototype wrapper's
\* calls are in a target directory, in one that is not named `target`, and
\* the root.
FnCalls ==
    {Call("rewrite_dep_info", text) : text \in Texts(DepInfoLines, MaxLines)}
        \cup {Call("build_script_run", text) : text \in StdoutTexts}
        \cup {Call("file_name", given) : given \in FileNameInputs}
        \cup {Call("role", argv) : argv \in Argvs}
        \cup {Call("main", given) : given \in MainInputs}
        \cup {Call("parse", text) : text \in Texts(ParseLines, MaxLines)}
        \cup {[Call("pop", out_dir) EXCEPT !.result = out_dir] :
                out_dir \in {<<"proj", "target", "debug", "deps">>,
                             <<"proj", "target">>,
                             <<"build", "debug", "deps">>,
                             <<"targets", "deps">>,
                             <<>>}}
        \cup {[Call("walk", given) EXCEPT
                    !.result = [path |-> given.out_dir, state |-> "walking", found |-> <<>>]] :
                given \in WalkInputs}

InitFn ==
    /\ InitBuilds(Workspaces)
    /\ preserves = FALSE
    /\ proc = [p \in Procs |-> StartProc(CHOOSE o \in Orders(ConcDefns) : TRUE)]
    /\ logFile = <<>>
    /\ appender = [a \in Appenders |-> NoAppend]
    /\ call \in FnCalls

fnFrame == <<store, log, fs, done, scriptRuns, invocations, last, preserves,
             proc, logFile, appender>>

\* The rewriter on a dependency-info file, and once more on what it wrote.
ApplyRewriter ==
    /\ call.fn = "rewrite_dep_info"
    /\ call.passes < MaxPasses
    /\ call.passes > 0 => call.result.ok
    /\ call' = [call EXCEPT
            !.result = rewrite_dep_info_text(IF call.passes = 0 THEN call.given
                                             ELSE call.result.text),
            !.passes = @ + 1]
    /\ UNCHANGED fnFrame

\* The wrapper in the place of a build script, with a text in the store as
\* the stdout of the run.
ApplyImpersonator ==
    /\ call.fn = "build_script_run"
    /\ call.passes = 0
    /\ \E nd \in {c \in Choices({}) : c.rustc = 0 /\ c.script = 0 /\ c.sentinel} :
       \E moved \in {append_moved_build_script_suffix(InvokedScriptPath("A"))} :
       \E substituted \in
            {Write(Write(Write(EmptyDir, moved, RegularFile(Full)),
                         Join(ScriptBuildDir("A"), "real-build-script"), Symlink(moved)),
                   InvokedScriptPath("A"), RegularFile(HopeExe))} :
       \E p \in {build_script_run(Start(CachedStore(call.given), <<>>, substituted, 2, FALSE),
                                 InvokedScriptPath("A"), Some(ScriptOutDir("A")),
                                 RegistrySrc \o <<"typenum-1.17.0">>, nd, "A")} :
            call' = [call EXCEPT
                !.result = [printed |-> p.printed, store |-> p.store,
                            branch |-> p.branch, exit |-> p.exit,
                            script_runs |-> p.script_runs],
                !.passes = 1]
    /\ UNCHANGED fnFrame

\* OutputDefn::file_name, called once and once more.
ApplyFileName ==
    /\ call.fn = "file_name"
    /\ call.passes < MaxPasses
    /\ call' = [call EXCEPT
            !.result = [panicked |-> file_name_panics(call.given.output_defn),
                        name |-> IF file_name_panics(call.given.output_defn) THEN ""
                                 ELSE file_name_on(call.given.target_os,
                                                   call.given.output_defn,
                                                   call.given.crate_unit_name)],
            !.passes = @ + 1]
    /\ UNCHANGED fnFrame

\* The wrapper takes its role.
ApplyRole ==
    /\ call.fn = "role"
    /\ call.passes = 0
    /\ call' = [call EXCEPT !.result = Role(call.given), !.passes = 1]
    /\ UNCHANGED fnFrame

\* The state a call of the compiler role starts in: the first as MainStart
\* has it, a later one where the call before it ended, after the driver has
\* written the sentinel anew.
MainStartOf(c) ==
    IF c.passes = 0 THEN MainStart(c.given)
    ELSE Start(c.result.store, c.result.log,
               DriverStart(c.result.fs, c.given.at, c.given.step, TRUE, 2 * c.passes + 1),
               2 * c.passes + 2, FALSE)

\* The wrapper in the role of the compiler, started with or without one of
\* the options and with any of the outcomes of its children; and started
\* again with the same arguments after it has ended with success.
ApplyMain ==
    /\ call.fn = "main"
    /\ call.passes < MaxPasses
    /\ call.passes > 0 => call.result.exit = 0
    /\ LET inv == WithEmit(Without(Invocation(call.given.at, call.given.step),
                                   call.given.missing),
                           call.given.emit)
       IN  \E nd \in Choices(output_defns(inv.crate_types, inv.emit)) :
            \E p \in {main(MainStartOf(call), inv, nd, call.given.at)} :
                call' = [call EXCEPT
                    !.result = [exit |-> p.exit, branch |-> p.branch, store |-> p.store,
                                log |-> p.log, fs |-> p.fs, rustc_calls |-> p.rustc_calls,
                                script_runs |-> p.script_runs, nd |-> nd],
                    !.passes = @ + 1]
    /\ UNCHANGED fnFrame

\* One turn of the loop of the upward walk for `.fingerprint`.
ApplyWalkUp ==
    /\ call.fn = "walk"
    /\ call.result.state = "walking"
    /\ call' = [call EXCEPT
            !.result = WalkUp(WalkTree(call.given.with_fingerprint), @),
            !.passes = @ + 1]
    /\ UNCHANGED fnFrame

\* wrapper/src/main.rs:256-259, 365-368: one turn of the loop that pops
\* components from the out-dir until the path ends with `target`.
ApplyPop ==
    /\ call.fn = "pop"
    /\ call.passes < MaxPops
    /\ ~ends_with(call.result, "target")
    /\ call' = [call EXCEPT !.result = pop(@), !.passes = @ + 1]
    /\ UNCHANGED fnFrame

\* DepInfo::parse on a text.
ApplyParse ==
    /\ call.fn = "parse"
    /\ call.passes = 0
    /\ call' = [call EXCEPT !.result = parse(call.given), !.passes = 1]
    /\ UNCHANGED fnFrame

NextFn ==
    \/ ApplyParse
    \/ ApplyPop
    \/ ApplyWalkUp
    \/ ApplyMain
    \/ ApplyRole
    \/ ApplyFileName
    \/ ApplyRewriter
    \/ ApplyImpersonator

SpecFn == InitFn /\ [][NextFn]_vars

\* ------------------------------------------------------------- properties

IsCompile(w, step) == last.role = "compiler" /\ last.w = w /\ last.step = step

\* The recipe file as the impersonator of workspace w writes it.
RecipePath(w) == Join(ScriptOutDir(w), BUILD_SCRIPT_INVOCATION_INFO_FILE_NAME)

\* The recipe files of a workspace, with their contents.
RecipeFiles(dir) ==
    [q \in {r \in DOMAIN dir : FileNameOf(r) = BUILD_SCRIPT_INVOCATION_INFO_FILE_NAME} |-> dir[q]]

\* The name the impersonator logs and the hash it stores the stdout under.
ScriptCrate == "typenum"
ScriptHash == "3"

\* C1: in a consumer workspace, the impersonator that finds the build
\* script's stdout in the store appends exactly one RanBuildScriptWrapper
\* entry and no RanBuildScript entry for the unit and starts no real build
\* script; the compiler call that then pulls the main unit appends neither
\* entry and starts no real build script either.
C1_ConsumerDefersScript ==
    [][\A w \in Workspaces :
        /\ (last'.role = "script" /\ last'.w = w
                /\ pull_build_script_stdout(store, ScriptHash) # None)
            => /\ Count(log', "RanBuildScriptWrapper", ScriptCrate, w)
                    = Count(log, "RanBuildScriptWrapper", ScriptCrate, w) + 1
               /\ Count(log', "RanBuildScript", ScriptCrate, w)
                    = Count(log, "RanBuildScript", ScriptCrate, w)
               /\ Len(log') = Len(log) + 1
               /\ scriptRuns'[w] = scriptRuns[w]
        /\ (last'.role = "compiler" /\ last'.w = w /\ last'.step = "typenum"
                /\ WhollyPresent(store, "typenum"))
            => /\ Count(log', "RanBuildScriptWrapper", ScriptCrate, w)
                    = Count(log, "RanBuildScriptWrapper", ScriptCrate, w)
               /\ Count(log', "RanBuildScript", ScriptCrate, w)
                    = Count(log, "RanBuildScript", ScriptCrate, w)
               /\ scriptRuns'[w] = scriptRuns[w]
    ]_vars

\* A consumer workspace: its impersonator deferred the script, its main unit
\* was pulled, one wrapper entry, no run entry, no run of the real script.
C1_Witness ==
    \E w \in Workspaces :
        /\ IsCompile(w, "typenum") /\ last.branch = "hit" /\ last.exit = 0
        /\ RecipePath(w) \in DOMAIN fs[w]
        /\ Count(log, "RanBuildScriptWrapper", ScriptCrate, w) = 1
        /\ Count(log, "RanBuildScript", ScriptCrate, w) = 0
        /\ scriptRuns[w] = 0

\* C2: when the impersonator has persisted a recipe and the compiler call
\* for the main unit of the package misses the cache, that call runs the
\* real build script.
C2_MissRunsDeferredScript ==
    \A w \in Workspaces :
        (IsCompile(w, "typenum") /\ last.branch = "miss" /\ RecipePath(w) \in DOMAIN fs[w])
            => last.script_runs = 1

\* C3: the stdout of a build script is in the store only when the main unit
\* of that build script is wholly present in the store.
C3_StdoutImpliesMainUnit ==
    pull_build_script_stdout(store, ScriptHash) # None => WhollyPresent(store, "typenum")

\* C4: a compiler call, started with its sentinel in place, for a unit of
\* which the store lacks a declared file is a miss: the pull appends no
\* PulledCrateOutputs entry, puts no file into out-dir, and the real
\* compiler is run.
C4_PartialUnitIsMiss ==
    [][\A w \in Workspaces, step \in CachedSteps :
        (last'.role = "compiler" /\ last'.w = w /\ last'.step = step
            /\ SentinelOf(w, step) \in DOMAIN fs'[w]
            /\ ~WhollyPresent(store, step))
        => /\ last'.branch = "miss"
           /\ CountAll(log', "PulledCrateOutputs", UnitOf(step))
                = CountAll(log, "PulledCrateOutputs", UnitOf(step))
           /\ last'.placed = {}
           /\ Len(last'.rustc_calls) = 1
    ]_vars

\* A miss on a unit that is partly in the store: some file was copied to the
\* arrival directory, none was placed, the real compiler ran.
C4_Witness ==
    /\ last.role = "compiler" /\ last.branch = "miss"
    /\ last.arrival # {}
    /\ last.placed = {}
    /\ Len(last.rustc_calls) = 1

\* C5: a pull that runs alongside a push of the same unit and ends as a
\* successful pull has placed complete files into out-dir.
C5_PullNeverPlacesShortFile ==
    \A p \in Procs :
        proc[p].pc = "pulled" =>
            \A d \in ConcDefns :
                proc[p].out[file_name(d, ConcUnit)] = PlacedData(d, RustcOutput(d))

\* C6: once two processes have both completed their push of the same unit,
\* the store holds every file of the unit with exactly the pushed bytes.
C6_ConcurrentPushesEndWhole ==
    (\A p \in Procs : proc[p].pc = "pushed") =>
        \A d \in ConcDefns :
            /\ file_name(d, ConcUnit) \in DOMAIN store
            /\ store[file_name(d, ConcUnit)] = RustcOutput(d)

\* Both pushes completed, and one of them opened a file the other was writing.
C6_Witness ==
    /\ \A p \in Procs : proc[p].pc = "pushed"
    /\ \E p \in Procs : proc[p].raced

\* C7, as stated: a unit whose files are in the store has exactly one
\* PushedCrateOutputs entry in the log.
C7_ExactlyOnePushedEntry ==
    \A step \in CachedSteps :
        WhollyPresent(store, step) => CountAll(log, "PushedCrateOutputs", UnitOf(step)) = 1

\* C7, amended: a unit has at most one PushedCrateOutputs entry in the log,
\* and a unit that has one is wholly present in the store.
C7_AtMostOnePushedEntry ==
    \A step \in CachedSteps :
        /\ CountAll(log, "PushedCrateOutputs", UnitOf(step)) <= 1
        /\ CountAll(log, "PushedCrateOutputs", UnitOf(step)) = 1 => WhollyPresent(store, step)

\* A unit pushed by one workspace and pulled by the other: one entry.
C7_Witness ==
    \E w \in Workspaces, v \in Workspaces :
        /\ w # v
        /\ WhollyPresent(store, "typenum")
        /\ Count(log, "PushedCrateOutputs", UnitOf("typenum"), w) = 1
        /\ CountAll(log, "PushedCrateOutputs", UnitOf("typenum")) = 1
        /\ Count(log, "PulledCrateOutputs", UnitOf("typenum"), v) = 1

\* C8: a compiler call, started with its sentinel in place, for a unit that
\* is wholly present in the store leaves the log with exactly one
\* PulledCrateOutputs entry of its workspace for the unit and none of its
\* PushedCrateOutputs entries, appends no PushedCrateOutputs entry, and does
\* not run the real compiler.
C8_HitPullsOnce ==
    [][\A w \in Workspaces, step \in CachedSteps :
        (last'.role = "compiler" /\ last'.w = w /\ last'.step = step
            /\ SentinelOf(w, step) \in DOMAIN fs'[w]
            /\ WhollyPresent(store, step))
        => /\ Count(log', "PulledCrateOutputs", UnitOf(step), w) = 1
           /\ Count(log', "PushedCrateOutputs", UnitOf(step), w) = 0
           /\ CountAll(log', "PushedCrateOutputs", UnitOf(step))
                = CountAll(log, "PushedCrateOutputs", UnitOf(step))
           /\ Len(log') = Len(log) + 1
           /\ last'.rustc_calls = <<>>
    ]_vars

\* A workspace that pulled a unit another workspace pushed.
C8_Witness ==
    \E w \in Workspaces, v \in Workspaces, step \in CachedSteps :
        /\ w # v
        /\ IsCompile(w, step) /\ last.branch = "hit" /\ last.exit = 0
        /\ last.rustc_calls = <<>>
        /\ last.placed = DeclaredFiles(step)
        /\ Count(log, "PushedCrateOutputs", UnitOf(step), v) = 1
        /\ Count(log, "PulledCrateOutputs", UnitOf(step), w) = 1

\* C9: a compiler call with no input, or with an input none of whose path
\* components starts with the registry prefix, runs the real compiler once
\* with the arguments it was given and leaves the store, the log and the
\* recipe files as they were.
C9_PassThroughFrame ==
    [][\A w \in Workspaces, step \in CompileSteps :
        LET inv == Invocation(w, step)
        IN  (last'.role = "compiler" /\ last'.w = w /\ last'.step = step
                /\ (\/ inv.input = None
                    \/ \A i \in DOMAIN inv.input[1] :
                            ~StartsWith(inv.input[1][i], "index.crates.io-")))
            => /\ last'.rustc_calls = <<[path |-> inv.rustc_path, args |-> inv.pass]>>
               /\ store' = store
               /\ log' = log
               /\ RecipeFiles(fs'[w]) = RecipeFiles(fs[w])
    ]_vars

\* A pass-through of the workspace's own crate, with a store, a log and a
\* recipe file to leave alone.
C9_Witness ==
    \E w \in Workspaces :
        /\ IsCompile(w, "foo") /\ last.branch = "passthrough" /\ last.exit = 0
        /\ Len(last.rustc_calls) = 1
        /\ store # NoFiles /\ log # <<>>
        /\ RecipePath(w) \in DOMAIN fs[w]

\* C10: a compiler call that missed, ran the real compiler with success and
\* then failed to push ends with exit code 0.
C10_PushFailureStillSucceeds ==
    (last.role = "compiler" /\ last.branch = "miss"
        /\ last.push \in {"failed", "no-departure"})
    => last.exit = 0

\* C11: a wrapper process whose real compiler or real build script ends with
\* a code other than 0 ends with that code, and one whose child is ended by
\* a signal ends with an error; in both cases it copies nothing into the
\* store and appends no PushedCrateOutputs entry.
C11_ChildFailurePropagates ==
    [][\A w \in FlatWorkspaces :
        (last'.w = w /\ last'.child_status # 0)
        => /\ last'.child_status > 0 => last'.exit = last'.child_status
           /\ last'.child_status < 0 => last'.exit = 1
           /\ last'.push = "none"
           /\ store' = store
           /\ \A step \in CachedSteps :
                CountAll(log', "PushedCrateOutputs", UnitOf(step))
                    = CountAll(log, "PushedCrateOutputs", UnitOf(step))
    ]_vars

\* A compiler call that found a recipe and whose deferred run of the real
\* build script ended with code 101: it ends with 101 before the compiler.
C11_Witness ==
    \E w \in FlatWorkspaces :
        /\ IsCompile(w, "typenum") /\ last.branch = "miss"
        /\ last.trace = <<"script">>
        /\ last.child_status = 101 /\ last.exit = 101
        /\ last.push = "none"

\* C12: a compiler call for a crates.io unit whose sentinel is missing ends
\* with a code other than 0 before it touches the store: it pulls nothing,
\* does not run the real compiler, pushes nothing and appends no log entry.
C12_MissingSentinelFailsEarly ==
    [][\A w \in Workspaces, step \in CachedSteps :
        (last'.role = "compiler" /\ last'.w = w /\ last'.step = step
            /\ SentinelOf(w, step) \notin DOMAIN fs'[w])
        => /\ last'.exit # 0
           /\ last'.branch = "error"
           /\ last'.arrival = {} /\ last'.placed = {}
           /\ last'.rustc_calls = <<>>
           /\ last'.push = "none"
           /\ store' = store
           /\ log' = log
    ]_vars

\* A compiler call without its sentinel for a unit that is wholly present in
\* the store: it failed and left out-dir without the unit's files.
C12_Witness ==
    \E w \in Workspaces :
        /\ IsCompile(w, "typenum") /\ last.exit = 1
        /\ SentinelOf(w, "typenum") \notin DOMAIN fs[w]
        /\ WhollyPresent(store, "typenum")
        /\ \A n \in DeclaredFiles("typenum") : Join(DepsDir(w), n) \notin DOMAIN fs[w]

\* The files a compiler call that pulled its unit wrote into out-dir: the
\* pulled files, where the substitution has left them, and the wrapper's
\* copy in the place of a build script.
WrittenIntoOutDir(w, step) ==
    LET out_dir == Invocation(w, step).out_dir[1]
        build_script_path == Join(out_dir, UnitOf(step))
    IN  IF IsBuildScriptOutDir(out_dir)
        THEN {Join(out_dir, n) : n \in last.placed \ {UnitOf(step)}}
                \cup {build_script_path, append_moved_build_script_suffix(build_script_path)}
        ELSE {Join(out_dir, n) : n \in last.placed}

\* C13: after a compiler call that pulled its unit, every file the wrapper
\* wrote into out-dir (the pulled files, the rewritten dependency-info file,
\* the wrapper's copy in the place of a build script) has the mtime of the
\* unit's sentinel, whether or not the platform's file copy keeps the mtime.
C13_WrittenFilesCarryInvokedTimestamp ==
    \A w \in Workspaces, step \in CachedSteps :
        (IsCompile(w, step) /\ last.branch = "hit" /\ last.exit = 0)
        => \A q \in WrittenIntoOutDir(w, step) :
                fs[w][q].mtime = fs[w][SentinelOf(w, step)].mtime

\* C14: after a compiler call that pulled its unit, every file of the unit
\* in out-dir has an mtime that is not before that of the unit's sentinel.
C14_PulledFilesNotOlderThanSentinel ==
    \A w \in Workspaces, step \in CachedSteps :
        (IsCompile(w, step) /\ last.branch = "hit" /\ last.exit = 0)
        => \A q \in WrittenIntoOutDir(w, step) :
                fs[w][q].mtime >= fs[w][SentinelOf(w, step)].mtime

\* A pull on a platform whose copy keeps the mtime: the pulled library has
\* the mtime of the sentinel, the rewritten dependency-info file a later one.
C14_Witness ==
    \E w \in Workspaces :
        LET sentinel == fs[w][SentinelOf(w, "typenum")].mtime
        IN  /\ IsCompile(w, "typenum") /\ last.branch = "hit" /\ last.exit = 0
            /\ preserves
            /\ last.placed = DeclaredFiles("typenum")
            /\ fs[w][Join(DepsDir(w), "libtypenum-4.rlib")].mtime = sentinel
            /\ fs[w][Join(DepsDir(w), "typenum-4.d")].mtime > sentinel

\* The units a workspace got by a pull and holds to be up to date.
PulledUnits(w) ==
    {step \in CachedSteps \cap done[w] :
        /\ Count(log, "PulledCrateOutputs", UnitOf(step), w) >= 1
        /\ Count(log, "PushedCrateOutputs", UnitOf(step), w) = 0}

RecipeInOutDir(w) == Join(DepsDir(w), BUILD_SCRIPT_INVOCATION_INFO_FILE_NAME)

\* C16: a recipe leads to at most one run of the real build script: when a
\* compiler call for the main unit has run the real build script from the
\* recipe and then the real compiler, the next compiler call for the main
\* unit in that workspace, with the recipe as it was, does not run the real
\* build script again.
C16_RecipeConsumedOnce ==
    [][\A w \in FlatWorkspaces :
        (/\ IsCompile(w, "typenum") /\ last.script_runs = 1
         /\ Len(last.rustc_calls) = 1
         /\ invocations' = invocations + 1
         /\ last'.role = "compiler" /\ last'.w = w /\ last'.step = "typenum"
         /\ RecipeInOutDir(w) \in DOMAIN fs[w]
         /\ RecipeFiles(fs'[w]) = RecipeFiles(fs[w]))
        => last'.script_runs = 0
    ]_vars

\* The place of a step of the miss branch in the order script, compiler, push.
TraceRank(what) == CASE what = "script" -> 1 [] what = "rustc" -> 2 [] OTHER -> 3

\* C17, as stated: on a miss with a recipe in out-dir the real compiler is
\* run before the real build script.
C17_CompilerBeforeDeferredScript ==
    \A w \in FlatWorkspaces :
        (IsCompile(w, "typenum") /\ last.branch = "miss"
            /\ last.script_runs = 1 /\ Len(last.rustc_calls) = 1)
        => last.trace[1] = "rustc"

\* C17, amended: on a miss the real build script of a recipe in out-dir is
\* run first; only after it has ended with success is the real compiler run,
\* once and with the arguments the wrapper was given; the push comes last.
C17_DeferredScriptBeforeCompiler ==
    \A w \in FlatWorkspaces, step \in CachedSteps :
        (IsCompile(w, step) /\ last.branch = "miss")
        => /\ \A i, j \in DOMAIN last.trace :
                i < j => TraceRank(last.trace[i]) < TraceRank(last.trace[j])
           /\ (step = "typenum" /\ RecipeInOutDir(w) \in DOMAIN fs[w]
                    /\ last.trace # <<>>)
                => last.trace[1] = "script" /\ last.script_runs = 1
           /\ last.rustc_calls # <<>>
                => last.rustc_calls = <<[path |-> Invocation(w, step).rustc_path,
                                         args |-> Invocation(w, step).pass]>>

\* A miss that found a recipe: the real build script, the real compiler and
\* the push, in this order.
C17_Witness ==
    \E w \in FlatWorkspaces :
        /\ IsCompile(w, "typenum") /\ last.branch = "miss" /\ last.exit = 0
        /\ last.trace = <<"script", "rustc", "push">>
        /\ WhollyPresent(store, "typenum")

\* C18: each run of the real build script, started by the impersonator or
\* from a recipe by a compiler call, is matched by one RanBuildScript entry:
\* a wrapper process that ends with success appends as many RanBuildScript
\* entries for the crate as it made runs of the real build script.
C18_EveryScriptRunIsLogged ==
    [][\A w \in FlatWorkspaces :
        (invocations' = invocations + 1 /\ last'.w = w /\ last'.exit = 0)
        => Count(log', "RanBuildScript", ScriptCrate, w)
                = Count(log, "RanBuildScript", ScriptCrate, w) + last'.script_runs
    ]_vars

\* C19: the log file holds only whole lines, one for each append, none of
\* them mixed with another: every piece of a line but the first comes
\* directly after the piece before it of the same line, and once every
\* appender has returned each of the lines is in the file once.
C19_LogLinesAreWhole ==
    /\ \A i \in DOMAIN logFile :
            logFile[i].piece > 1
            => /\ i > 1
               /\ logFile[i - 1] = [logFile[i] EXCEPT !.piece = @ - 1]
    /\ (\A a \in Appenders : appender[a].pc = "done")
            => \A a \in Appenders :
                    \E i \in DOMAIN logFile :
                        SubSeq(logFile, i, i + LineChunks - 1) = LinePieces(a)

\* The store has some of the files a unit declares, and not all.
PartlyPresent(st, step) ==
    /\ ~WhollyPresent(st, step)
    /\ DeclaredFiles(step) \cap DOMAIN st # {}

C21_EagerRunStoresStdout ==
    [][\A w \in Workspaces :
        (invocations' = invocations + 1
            /\ last'.role = "script" /\ last'.w = w
            /\ pull_build_script_stdout(store, ScriptHash) = None
            /\ last'.child_status = 0)
        => /\ last'.exit = 0
           /\ last'.script_runs = 1
           /\ last'.printed = ScriptStdout \o ScriptStderr
           /\ Count(log', "RanBuildScriptWrapper", ScriptCrate, w)
                = Count(log, "RanBuildScriptWrapper", ScriptCrate, w) + 1
           /\ Count(log', "RanBuildScript", ScriptCrate, w)
                = Count(log, "RanBuildScript", ScriptCrate, w) + 1
           /\ Len(log') = Len(log) + 2
           /\ pull_build_script_stdout(store', ScriptHash) = Some(ScriptStdout)
           /\ \A n \in DOMAIN store : n \in DOMAIN store' /\ store'[n] = store[n]
    ]_vars

\* An eager run: the stdout in the store still has its `cargo:rerun-if-` line.
C21_Witness ==
    \E w \in Workspaces :
        /\ last.role = "script" /\ last.w = w /\ last.branch = "eager" /\ last.exit = 0
        /\ scriptRuns[w] = 1
        /\ Count(log, "RanBuildScript", ScriptCrate, w) = 1
        /\ pull_build_script_stdout(store, ScriptHash) # None
        /\ \E i \in DOMAIN str_lines(store[stdout_file_name(ScriptHash)]) :
                StartsWith(str_lines(store[stdout_file_name(ScriptHash)])[i], "cargo:rerun-if-")

\* C23: after a compiler call that ended with success and whose out-dir is
\* the build directory of a build script, pulled or built, the directory
\* has the real build script under its name with the suffix -moved-by-hope,
\* the link real-build-script to that file, and under the build script's
\* own name a regular file that is a copy of the wrapper.
C23_BuildScriptSubstituted ==
    \A w \in Workspaces :
        (IsCompile(w, "bs") /\ last.exit = 0 /\ last.branch \in {"hit", "miss"})
        => LET dir == ScriptBuildDir(w)
               original == Join(dir, UnitOf("bs"))
               moved == Join(dir, UnitOf("bs") \o "-moved-by-hope")
               link == Join(dir, "real-build-script")
           IN  /\ {original, moved, link} \subseteq DOMAIN fs[w]
               /\ fs[w][moved].data = RustcOutput(OutputDefn("Link", "Bin"))
               /\ fs[w][moved].link = <<>>
               /\ fs[w][link].link = moved
               /\ fs[w][original].data = HopeExe
               /\ fs[w][original].link = <<>>

\* The substitution after a pull and after a build, in two workspaces.
C23_Witness ==
    \E w \in Workspaces, v \in Workspaces :
        /\ IsCompile(w, "bs") /\ last.exit = 0 /\ last.branch = "hit"
        /\ Count(log, "PushedCrateOutputs", UnitOf("bs"), v) = 1
        /\ fs[w][Join(ScriptBuildDir(w), UnitOf("bs"))].data = HopeExe
        /\ fs[v][Join(ScriptBuildDir(v), UnitOf("bs"))].data = HopeExe
        /\ fs[w][Join(ScriptBuildDir(w), "real-build-script")].link
                = Join(ScriptBuildDir(w), UnitOf("bs") \o "-moved-by-hope")

\* C27: after a compiler call has run the real build script from a recipe
\* with success, the files that were under the build script's output
\* directory at the end of that run (what the script wrote, the recipe) have
\* the mtime of the sentinel of the build script's run, which is neither the
\* mtime of the main unit's sentinel nor the time of the writes.
C27_ScriptOutputsCarryRunTimestamp ==
    \A w \in FlatWorkspaces :
        (IsCompile(w, "typenum") /\ last.script_runs = 1 /\ last.child_status = 0
            /\ SentinelOf(w, "run") \in DOMAIN fs[w])
        => \A q \in {Join(ScriptOutDir(w), "consts.rs"), RecipePath(w)} :
                /\ q \in DOMAIN fs[w]
                /\ fs[w][q].mtime = fs[w][SentinelOf(w, "run")].mtime

\* A deferred run after which the script's file is older than the main
\* unit's sentinel and than what the real compiler wrote afterwards.
C27_Witness ==
    \E w \in FlatWorkspaces :
        /\ IsCompile(w, "typenum") /\ last.script_runs = 1 /\ last.exit = 0
        /\ fs[w][Join(ScriptOutDir(w), "consts.rs")].mtime
                = fs[w][SentinelOf(w, "run")].mtime
        /\ fs[w][Join(ScriptOutDir(w), "consts.rs")].mtime
                < fs[w][SentinelOf(w, "typenum")].mtime
        /\ fs[w][Join(ScriptOutDir(w), "consts.rs")].mtime
                < fs[w][Join(DepsDir(w), "libtypenum-4.rlib")].mtime

\* C24: the rewriter, run over what it has written for a file of comment
\* lines, empty lines and data lines (a target, a colon, sources), writes
\* the same text again.
C24_RewriterIdempotent ==
    [][(call.fn = "rewrite_dep_info" /\ call.passes = 1 /\ call'.passes = 2)
        => /\ call'.result.ok
           /\ call'.result.text = call.result.text]_vars

\* A second pass over a file from which the first pass took a line and a
\* source, and whose white space it changed.
C24_Witness ==
    /\ call.fn = "rewrite_dep_info" /\ call.passes = 2
    /\ call.given = Unlines(<<"/t/build/x-3/out/c.rs:", "x.d:a.rs  b.rs ">>)
    /\ call.result.text = "x.d: a.rs b.rs\n"

\* C22: an impersonator that finds a stdout in the store writes to its
\* standard output the lines of that stdout that do not begin with
\* `cargo:rerun-if-`, all of them and in their order, and none that does;
\* the stdout in the store is as it was.
C22_CachedStdoutIsFiltered ==
    (call.fn = "build_script_run" /\ call.passes = 1)
    => LET cached == str_lines(call.given)
           written == str_lines(call.result.printed)
           kept == {i \in DOMAIN cached : ~StartsWith(cached[i], "cargo:rerun-if-")}
       IN  /\ call.result.branch = "deferred"
           /\ call.result.script_runs = 0
           /\ Len(written) = Cardinality(kept)
           /\ \A i \in kept : written[Cardinality({j \in kept : j <= i})] = cached[i]
           /\ call.result.store = CachedStore(call.given)

\* A stdout of which the impersonator left a line out and wrote the line
\* that stops short of the prefix.
C22_Witness ==
    /\ call.fn = "build_script_run" /\ call.passes = 1
    /\ call.given = "cargo:rerun-if-changed=build.rs\ncargo:rerun-if"
    /\ call.result.printed = "cargo:rerun-if\n"
    /\ call.result.exit = 0

\* C28: the filename function returns, for every output definition (the
\* linked artifact with each crate type too) and every unit name, the name
\* that the table of persisted files gives: `lib{unit}.rlib` for a library
\* and a static library, `{unit}` for a binary, `lib{unit}.so` (Linux) or
\* `lib{unit}.dylib` (Darwin) for a dynamic library, a C dynamic library
\* and a procedural macro, and `{unit}.s`, `{unit}.bc`, `{unit}.ll`,
\* `{unit}.o`, `lib{unit}.rmeta`, `{unit}.d`, `{unit}.mir` for the others.
C28_FileNameIsTotal ==
    (call.fn = "file_name" /\ call.passes >= 1)
    => LET unit == call.given.crate_unit_name
           defn == call.given.output_defn
           dynamic == IF call.given.target_os = "macos" THEN ".dylib" ELSE ".so"
       IN  /\ ~call.result.panicked
           /\ call.result.name =
                CASE defn.tag = "Asm" -> unit \o ".s"
                  [] defn.tag = "LlvmBc" -> unit \o ".bc"
                  [] defn.tag = "LlvmIr" -> unit \o ".ll"
                  [] defn.tag = "Obj" -> unit \o ".o"
                  [] defn.tag = "Metadata" -> "lib" \o unit \o ".rmeta"
                  [] defn.tag = "DepInfo" -> unit \o ".d"
                  [] defn.tag = "Mir" -> unit \o ".mir"
                  [] defn.tag = "Link" /\ defn.ct \in {"Lib", "Rlib", "Staticlib"} ->
                        "lib" \o unit \o ".rlib"
                  [] defn.tag = "Link" /\ defn.ct = "Bin" -> unit
                  [] defn.tag = "Link" /\ defn.ct \in {"Dylib", "Cdylib", "ProcMacro"} ->
                        "lib" \o unit \o dynamic

\* C29: the wrapper takes the role of the build script when argv has one
\* element and argv[0] contains `/build/`, and only then; with any other
\* argv it takes the role of the compiler, in which argv[1] is the path of
\* the real compiler (and its absence an error).
C29_RoleFromArgv ==
    (call.fn = "role" /\ call.passes = 1)
    => LET argv == call.given
           in_build_dir == \E i \in 1..(Len(argv[1]) - 6) :
                                SubSeq(argv[1], i, i + 6) = "/build/"
       IN  /\ call.result.role = "build_script" <=> (Len(argv) = 1 /\ in_build_dir)
           /\ call.result.role # "build_script"
                => IF Len(argv) >= 2
                   THEN call.result.role = "rustc" /\ call.result.rustc_path = argv[2]
                   ELSE call.result.role = "error"

\* A call by the build script's path with an argument after it: the role of
\* the compiler.
C29_Witness ==
    /\ call.fn = "role" /\ call.passes = 1
    /\ call.given = <<"/t/debug/build/typenum-2/build-script-build", "/usr/bin/rustc">>
    /\ call.result.role = "rustc"
    /\ call.result.rustc_path = "/usr/bin/rustc"

\* C30: a compiler call whose input is in the registry's source tree and
\* that has no out-dir, no crate-name, no extra-filename or no metadata
\* ends with a status other than 0, without a call of the real compiler,
\* and leaves the store, the log and the workspace as they were.
C30_MissingOptionIsFatal ==
    (/\ call.fn = "main" /\ call.passes = 1
     /\ call.given.missing # "none"
     /\ IsCratesIoInput(Invocation("B", call.given.step).input[1]))
    => /\ call.result.exit # 0
       /\ call.result.rustc_calls = <<>>
       /\ call.result.script_runs = 0
       /\ call.result.store = MainStart(call.given).store
       /\ call.result.log = MainStart(call.given).log
       /\ call.result.fs = MainStart(call.given).fs

\* A call without its extra-filename that fails while the store holds the
\* unit it would have pulled.
C30_Witness ==
    /\ call.fn = "main" /\ call.passes = 1
    /\ call.given = [step |-> "typenum", missing |-> "extra-filename", emit |-> "all",
                     stored |-> TRUE, at |-> "B"]
    /\ "libtypenum-4.rlib" \in DOMAIN call.result.store
    /\ call.result.exit = 1
    /\ call.result.branch = "error"

\* C25: for a data line of a dependency-info file the rewriter writes
\* nothing when the target (the text before the first colon) contains
\* `/build/`; for any other data line it writes the target, a colon, and
\* those source paths of the line that do not contain `/build/`, each of
\* them and in their order, and nothing else.
C25_DataLineKeepsOtherSources ==
    (/\ call.fn = "rewrite_dep_info" /\ call.passes = 1
     /\ Len(str_lines(call.given)) = 1
     /\ str_trim(str_lines(call.given)[1]) # ""
     /\ ~StartsWith(str_trim(str_lines(call.given)[1]), "#"))
    => LET line == str_trim(str_lines(call.given)[1])
           colon == CHOOSE i \in Places(line, ":") : \A j \in Places(line, ":") : i <= j
           target == SubSeq(line, 1, colon - 1)
           sources == SourcePaths(SubSeq(line, colon + 1, Len(line)), "")
           kept == SelectSeq(sources, LAMBDA q : ~str_contains(q, "/build/"))
           written == str_lines(call.result.text)
       IN  /\ call.result.ok
           /\ IF str_contains(target, "/build/") THEN written = <<>>
              ELSE /\ Len(written) = 1
                   /\ split_once(written[1], ":")[1][1] = target
                   /\ SourcePaths(split_once(written[1], ":")[1][2], "") = kept

C31_PushedUnitsAreWhole ==
    [][/\ DOMAIN store \subseteq DOMAIN store'
       /\ \A i \in DOMAIN log' :
            log'[i].kind = "PushedCrateOutputs"
            => \A step \in CachedSteps :
                    UnitOf(step) = log'[i].name => WhollyPresent(store', step)]_vars

\* Both cached units pushed, and a later compiler call of the other
\* workspace that found them in the store.
C31_Witness ==
    /\ \A step \in CachedSteps :
            /\ CountAll(log, "PushedCrateOutputs", UnitOf(step)) >= 1
            /\ WhollyPresent(store, step)
    /\ \E i \in DOMAIN log : log[i].kind = "PulledCrateOutputs"

\* C32: a compiler call for a unit that no process has pushed (the store is
\* empty) does not end as a hit: it appends no PulledCrateOutputs entry, and
\* when it ends with success the real compiler has run; this with the
\* options of the driver, without --emit, and with --emit=link and no
\* --crate-type.
C32_NoHitWithoutPush ==
    (/\ call.fn = "main" /\ call.passes = 1
     /\ ~call.given.stored
     /\ call.given.missing = "none"
     /\ IsCratesIoInput(Invocation("B", call.given.step).input[1]))
    => /\ call.result.branch # "hit"
       /\ \A i \in DOMAIN call.result.log : call.result.log[i].kind # "PulledCrateOutputs"
       /\ call.result.exit = 0 => call.result.rustc_calls # <<>>

\* C33: a compiler call for the library unit, with the driver's dependency
\* directory as out-dir, leaves no moved build script, no link
\* real-build-script and no copy of the wrapper there, and ends with success
\* when the real compiler and the copies do, whatever the directory the
\* workspace lies in.
C33_LibraryUnitIsNotSubstituted ==
    (/\ call.fn = "main" /\ call.passes = 1
     /\ call.given.step = "typenum"
     /\ call.given.missing = "none" /\ call.given.emit = "all")
    => /\ \A q \in DOMAIN call.result.fs :
            /\ FileNameOf(q) # "real-build-script"
            /\ call.result.fs[q].data # HopeExe
            /\ FileNameOf(q) # FileNameOf(append_moved_build_script_suffix(q))
       /\ (/\ call.result.nd.rustc = 0 /\ call.result.nd.fail_at = 0
           /\ call.result.nd.sentinel
           /\ call.result.nd.produced =
                    output_defns(Invocation(call.given.at, "typenum").crate_types,
                                 Invocation(call.given.at, "typenum").emit))
          => call.result.exit = 0

\* C34: a second compiler call for the build-script unit with the same
\* out-dir, after a first that ended with success and put the wrapper in
\* the build script's place, ends with success when its children and copies
\* do, and leaves the same layout: the real build script under the name with
\* the suffix, the link real-build-script to it, and a copy of the wrapper
\* under the build script's name.
C34_SubstitutionIsRepeatable ==
    (/\ call.fn = "main" /\ call.passes = 2
     /\ call.given.step = "bs" /\ call.given.at = "B"
     /\ call.given.missing = "none" /\ call.given.emit = "all"
     /\ call.result.nd.rustc = 0 /\ call.result.nd.fail_at = 0
     /\ call.result.nd.sentinel
     /\ call.result.nd.produced = output_defns(Invocation("B", "bs").crate_types,
                                                Invocation("B", "bs").emit))
    => LET dir == ScriptBuildDir("B")
           original == Join(dir, UnitOf("bs"))
           moved == append_moved_build_script_suffix(original)
           link == Join(dir, "real-build-script")
       IN  /\ call.result.exit = 0
           /\ {original, moved, link} \subseteq DOMAIN call.result.fs
           /\ call.result.fs[link].link = moved
           /\ call.result.fs[moved].data = RustcOutput(OutputDefn("Link", "Bin"))
           /\ call.result.fs[original].data = HopeExe

\* C35: an impersonator that runs the real build script itself and whose
\* script ends without success ends with the script's exit code (with an
\* error when a signal ended the script), has left the store as it was, so
\* that no stdout of the run is in it, and has appended its
\* RanBuildScriptWrapper entry and no RanBuildScript entry.
C35_FailedRunStoresNothing ==
    [][\A w \in Workspaces :
        (/\ invocations' = invocations + 1
         /\ last'.role = "script" /\ last'.w = w
         /\ last'.branch = "eager" /\ last'.child_status # 0)
        => /\ last'.child_status > 0 => last'.exit = last'.child_status
           /\ last'.child_status < 0 => last'.exit # 0
           /\ store' = store
           /\ pull_build_script_stdout(store', ScriptHash) = None
           /\ log' = Append(log, LogLine("RanBuildScriptWrapper", ScriptCrate, w))
           /\ last'.printed = ""
    ]_vars

\* A build script that ended with 101 under the impersonator; the store has
\* the units of the package and no stdout.
C35_Witness ==
    /\ last.role = "script" /\ last.branch = "eager"
    /\ last.child_status = 101 /\ last.exit = 101
    /\ WhollyPresent(store, "bs")
    /\ pull_build_script_stdout(store, ScriptHash) = None
    /\ \A i \in DOMAIN log : log[i].kind # "RanBuildScript"

C37_WalkEndsAtFirstFingerprint ==
    call.fn = "walk"
    => LET out_dir == call.given.out_dir
           tree == WalkTree(call.given.with_fingerprint)
           Ancestor(n) == SubSeq(out_dir, 1, Len(out_dir) - n)
           Has(n) == Exists(tree, Join(Ancestor(n), ".fingerprint"))
           walk == call.result
       IN  /\ call.passes <= Len(out_dir) + 1
           /\ walk.state = "walking"
                => /\ call.passes <= Len(out_dir)
                   /\ walk.path = Ancestor(call.passes)
                   /\ \A n \in 0..(call.passes - 1) : ~Has(n)
           /\ walk.state = "found"
                => \E n \in 0..Len(out_dir) :
                        /\ Has(n) /\ \A m \in 0..(n - 1) : ~Has(m)
                        /\ walk.found = Join(Ancestor(n), ".fingerprint")
                        /\ call.passes = n + 1
           /\ walk.state = "error" => \A n \in 0..Len(out_dir) : ~Has(n)
           /\ walk.state # "walking"
                => (IF walk.state = "found" THEN Some(walk.found) ELSE None)
                        = FindFingerprintDir(tree, out_dir)

\* A walk from the dependency directory that went past a directory without
\* `.fingerprint` and ended two levels up, though the root has one too.
C37_Witness ==
    /\ call.fn = "walk"
    /\ call.given = [out_dir |-> <<"t", "debug", "deps">>,
                     with_fingerprint |-> {<<>>, <<"t">>, <<"other">>}]
    /\ call.result.state = "found"
    /\ call.result.found = <<"t", ".fingerprint">>
    /\ call.passes = 3

\* C38: the prototype's loop that pops components from out-dir until the
\* path ends with `target` comes to its end for every out-dir: each of its
\* turns leaves the path shorter, so that it takes no more turns than
\* out-dir has components.
C38_PopLoopEnds ==
    [][(call.fn = "pop" /\ call'.passes = call.passes + 1)
        => /\ Len(call'.result) < Len(call.result)
           /\ call'.passes <= Len(call.given)]_vars

\* C39: DepInfo::parse fails when a line that is neither empty nor a
\* comment has no colon, and only then; else its map has the targets of the
\* data lines (the text before the first colon) and no other key, and a
\* target has the sources of the last line that names it: the pieces
\* between the spaces after the colon, in their order, none when there is
\* nothing after the colon.
C39_ParseMapsTargetsToSources ==
    (call.fn = "parse" /\ call.passes = 1)
    => LET ls == str_lines(call.given)
           Line(i) == str_trim(ls[i])
           data == {i \in DOMAIN ls : Line(i) # "" /\ SubSeq(Line(i), 1, 1) # "#"}
           Colon(i) == CHOOSE k \in Places(Line(i), ":") : \A j \in Places(Line(i), ":") : k <= j
           Target(i) == SubSeq(Line(i), 1, Colon(i) - 1)
           Rest(i) == SubSeq(Line(i), Colon(i) + 1, Len(Line(i)))
           files == call.result.files
       IN  /\ call.result.ok <=> \A i \in data : Places(Line(i), ":") # {}
           /\ call.result.ok
                => /\ DOMAIN files = {Target(i) : i \in data}
                   /\ \A i \in data :
                        (\A j \in data : Target(j) = Target(i) => j <= i)
                        => LET sources == files[Target(i)]
                               spaces == Places(Rest(i), " ")
                           IN  /\ \A k \in DOMAIN sources :
                                    /\ sources[k] # ""
                                    /\ Places(sources[k], " ") = {}
                               /\ Len(Rest(i)) - Cardinality(spaces)
                                    = Len(println_each(sources)) - Len(sources)
                               /\ \A k \in DOMAIN sources : str_contains(Rest(i), sources[k])
                               /\ \A k \in 1..(Len(sources) - 1) :
                                    \E p \in 1..Len(Rest(i)) :
                                        \E q \in (p + Len(sources[k]))..Len(Rest(i)) :
                                            /\ SubSeq(Rest(i), p, p + Len(sources[k]) - 1) = sources[k]
                                            /\ SubSeq(Rest(i), q, q + Len(sources[k + 1]) - 1)
                                                    = sources[k + 1]
                               /\ (Rest(i) = "" => sources = <<>>)

\* A text in which a target stands on two lines: the map has the sources of
\* the second.
C39_Witness ==
    /\ call.fn = "parse" /\ call.passes = 1
    /\ call.given = Unlines(<<"/t/deps/x: src/main.rs src/a.rs", "/t/deps/x:">>)
    /\ call.result.ok
    /\ DOMAIN call.result.files = {"/t/deps/x"}
    /\ call.result.files["/t/deps/x"] = <<>>

====
